---- MODULE Spec2Model ----
(***************************************************************************)
(* The ACM8623 / ACM8635 amplifier drivers (src/acm8623/acm8623.c and      *)
(* src/acm8635/acm8635.c) as one state machine.  The two files are the     *)
(* same code up to their tables, the gain page and the gain offsets; the   *)
(* variable `variant` says which file an instance runs.                    *)
(*                                                                         *)
(* Every kernel thread that can be inside the driver is a record with a    *)
(* program counter: the worker running do_work, and one caller each for    *)
(* vol_put, vol_get, mute, dac_event and i2c_remove.  trigger runs in      *)
(* atomic context and is a single step.  Every regmap call is one step.    *)
(***************************************************************************)
EXTENDS Integers, Sequences, FiniteSets, TLC

(***************************************************************************)
(* Register addresses and DEVICE_STATE values (the #defines).              *)
(***************************************************************************)
REG_PAGE == 0

REG_DEVICE_STATE == 4

REG_STATE_REPORT == 22

REG_GLOBAL_FAULT1 == 23

REG_GLOBAL_FAULT2 == 24

REG_GLOBAL_FAULT3 == 25

DEVICE_STATE_HIZ == 2

DEVICE_STATE_PLAY == 3

DEVICE_STATE_MUTE == 12

VOLUME_MIN == 0

VOLUME_0DB == 110

(***************************************************************************)
(* The byte tables and the volume tables, copied from the two files.       *)
(***************************************************************************)
acm8623_dsp_cfg_preboot ==
   <<
      0, 0, 4, 0, 252, 134, 253, 34,
      254, 37, 0, 0, 0, 0, 0, 0,
      0, 0, 0, 0, 0, 0, 0, 0
   >>

acm8623_dsp_cfg_default ==
   <<
      0, 0, 4, 0, 0, 0, 0, 0,
      0, 0, 0, 0, 0, 0, 0, 11,
      92, 128, 93, 158, 94, 2, 95, 158,
      96, 128, 97, 158, 98, 3, 99, 158,
      0, 5, 176, 8, 177, 0, 178, 0,
      179, 0, 180, 0, 181, 0, 182, 0,
      183, 0, 184, 0, 185, 0, 186, 0,
      187, 0, 188, 8, 189, 0, 190, 0,
      191, 0, 192, 8, 193, 0, 194, 0,
      195, 0, 196, 8, 197, 0, 198, 0,
      199, 0, 200, 0, 201, 226, 202, 196,
      203, 107, 0, 6, 56, 8, 57, 0,
      58, 0, 59, 0, 60, 0, 61, 0,
      62, 0, 63, 0, 64, 0, 65, 0,
      66, 0, 67, 0, 68, 0, 69, 0,
      70, 0, 71, 0, 72, 0, 73, 0,
      74, 0, 75, 0, 176, 8, 177, 0,
      178, 0, 179, 0, 180, 0, 181, 0,
      182, 0, 183, 0, 184, 0, 185, 0,
      186, 0, 187, 0, 188, 0, 189, 0,
      190, 0, 191, 0, 192, 0, 193, 0,
      194, 0, 195, 0, 76, 8, 77, 0,
      78, 0, 79, 0, 80, 0, 81, 0,
      82, 0, 83, 0, 84, 0, 85, 0,
      86, 0, 87, 0, 88, 0, 89, 0,
      90, 0, 91, 0, 92, 0, 93, 0,
      94, 0, 95, 0, 196, 8, 197, 0,
      198, 0, 199, 0, 200, 0, 201, 0,
      202, 0, 203, 0, 204, 0, 205, 0,
      206, 0, 207, 0, 208, 0, 209, 0,
      210, 0, 211, 0, 212, 0, 213, 0,
      214, 0, 215, 0, 16, 8, 17, 0,
      18, 0, 19, 0, 20, 0, 21, 0,
      22, 0, 23, 0, 24, 0, 25, 0,
      26, 0, 27, 0, 28, 0, 29, 0,
      30, 0, 31, 0, 32, 0, 33, 0,
      34, 0, 35, 0, 136, 8, 137, 0,
      138, 0, 139, 0, 140, 0, 141, 0,
      142, 0, 143, 0, 144, 0, 145, 0,
      146, 0, 147, 0, 148, 0, 149, 0,
      150, 0, 151, 0, 152, 0, 153, 0,
      154, 0, 155, 0, 36, 8, 37, 0,
      38, 0, 39, 0, 40, 0, 41, 0,
      42, 0, 43, 0, 44, 0, 45, 0,
      46, 0, 47, 0, 48, 0, 49, 0,
      50, 0, 51, 0, 52, 0, 53, 0,
      54, 0, 55, 0, 156, 8, 157, 0,
      158, 0, 159, 0, 160, 0, 161, 0,
      162, 0, 163, 0, 164, 0, 165, 0,
      166, 0, 167, 0, 168, 0, 169, 0,
      170, 0, 171, 0, 172, 0, 173, 0,
      174, 0, 175, 0, 0, 5, 228, 8,
      229, 0, 230, 0, 231, 0, 232, 0,
      233, 0, 234, 0, 235, 0, 236, 0,
      237, 0, 238, 0, 239, 0, 240, 0,
      241, 0, 242, 0, 243, 0, 244, 0,
      245, 0, 246, 0, 247, 0, 0, 6,
      96, 8, 97, 0, 98, 0, 99, 0,
      100, 0, 101, 0, 102, 0, 103, 0,
      104, 0, 105, 0, 106, 0, 107, 0,
      108, 0, 109, 0, 110, 0, 111, 0,
      112, 0, 113, 0, 114, 0, 115, 0,
      0, 5, 248, 8, 249, 0, 250, 0,
      251, 0, 252, 0, 253, 0, 254, 0,
      255, 0, 0, 6, 4, 0, 5, 0,
      6, 0, 7, 0, 8, 0, 9, 0,
      10, 0, 11, 0, 12, 0, 13, 0,
      14, 0, 15, 0, 116, 8, 117, 0,
      118, 0, 119, 0, 120, 0, 121, 0,
      122, 0, 123, 0, 124, 0, 125, 0,
      126, 0, 127, 0, 128, 0, 129, 0,
      130, 0, 131, 0, 132, 0, 133, 0,
      134, 0, 135, 0, 216, 0, 217, 34,
      218, 29, 219, 149, 220, 4, 221, 12,
      222, 55, 223, 20, 224, 28, 225, 27,
      226, 240, 227, 65, 228, 0, 229, 34,
      230, 29, 231, 149, 0, 4, 4, 8,
      5, 19, 6, 133, 7, 98, 12, 0,
      13, 1, 14, 93, 15, 134, 8, 0,
      9, 70, 10, 255, 11, 81, 16, 5,
      17, 57, 18, 71, 19, 166, 20, 122,
      21, 198, 22, 184, 23, 90, 0, 0,
      4, 0, 0, 1, 1, 0, 0, 0,
      17, 195, 2, 0, 3, 5, 1, 132,
      0, 0, 4, 2, 0, 0, 0, 0,
      0, 0, 0, 0, 0, 0, 0, 0,
      0, 0, 0, 0, 0, 0, 4, 3
   >>

acm8623_volume ==
   <<
      424, 476, 534, 600,
      673, 755, 847, 950,
      1066, 1196, 1342, 1506,
      1690, 1896, 2127, 2387,
      2678, 3005, 3371, 3783,
      4244, 4762, 5343, 5995,
      6727, 7548, 8469, 9502,
      10661, 11962, 13422, 15059,
      16897, 18959, 21272, 23868,
      26780, 30048, 33714, 37828,
      42443, 47622, 53433, 59953,
      67268, 75476, 84686, 95019,
      106613, 119622, 134218, 150595,
      168970, 189588, 212721, 238677,
      267800, 300476, 337140, 378277,
      424434, 476222, 534330, 599529,
      672682, 754762, 846857, 950189,
      1066129, 1196217, 1342177, 1505948,
      1689701, 1895876, 2127208, 2386766,
      2677996, 3004761, 3371397, 3782770,
      4244337, 4762225, 5343304, 5995286,
      6726821, 7547618, 8468566, 9501887,
      10661293, 11962168, 13421773, 15059477,
      16897011, 18958758, 21272076, 23867662,
      26779957, 30047606, 33713969, 37827695,
      42443372, 47622247, 53433040, 59952857,
      67268212, 75476175, 84685661, 95018875,
      106612931, 119621676, 134217728, 150594768,
      168970108, 189587580, 212720763, 238676622,
      267799575, 300476065, 337139690, 378276954,
      424433723, 476222470, 534330399, 599528569,
      672682118, 754761750, 846856612, 950188747,
      1066129310, 1196216760, 1342177280, 1505947677,
      1689701085, 1895875800, 2127207634
   >>

acm8635_dsp_cfg_preboot ==
   <<
      0, 0, 4, 0, 252, 134, 253, 37,
      254, 83, 0, 1, 2, 32, 0, 0,
      0, 0, 0, 0, 0, 0, 0, 0
   >>

acm8635_dsp_cfg_default ==
   <<
      0, 0, 4, 0, 0, 0, 0, 0,
      0, 0, 0, 0, 0, 0, 0, 9,
      228, 128, 229, 158, 230, 2, 231, 158,
      232, 128, 233, 158, 234, 3, 235, 158,
      0, 4, 148, 0, 149, 226, 150, 196,
      151, 107, 40, 0, 41, 64, 42, 38,
      43, 231, 44, 0, 45, 64, 46, 38,
      47, 231, 0, 12, 96, 0, 97, 27,
      98, 75, 99, 152, 100, 0, 101, 34,
      102, 29, 103, 149, 104, 0, 105, 6,
      106, 211, 107, 114, 108, 0, 109, 0,
      110, 0, 111, 0, 112, 0, 113, 0,
      114, 0, 115, 0, 116, 255, 117, 129,
      118, 71, 119, 174, 120, 245, 121, 179,
      122, 183, 123, 200, 124, 254, 125, 1,
      126, 192, 127, 121, 128, 0, 129, 0,
      130, 0, 131, 0, 132, 0, 133, 0,
      134, 0, 135, 0, 0, 1, 1, 0,
      0, 0, 17, 3, 2, 0, 6, 176,
      5, 240, 40, 3, 3, 5, 1, 132,
      0, 1, 9, 4, 0, 0, 4, 2,
      0, 0, 0, 0, 0, 0, 0, 0,
      0, 0, 0, 0, 0, 0, 0, 0,
      0, 0, 4, 3
   >>

acm8635_volume ==
   <<
      27, 30, 33, 37,
      42, 47, 53, 59,
      67, 75, 84, 94,
      106, 118, 133, 149,
      167, 188, 211, 236,
      265, 298, 334, 375,
      420, 472, 529, 594,
      666, 748, 839, 941,
      1056, 1185, 1330, 1492,
      1674, 1878, 2107, 2364,
      2653, 2976, 3340, 3747,
      4204, 4717, 5293, 5939,
      6663, 7476, 8389, 9412,
      10561, 11849, 13295, 14917,
      16737, 18780, 21071, 23642,
      26527, 29764, 33396, 37471,
      42043, 47173, 52929, 59387,
      66633, 74764, 83886, 94122,
      105606, 118492, 132950, 149173,
      167375, 187798, 210712, 236423,
      265271, 297639, 333956, 374705,
      420426, 471726, 529285, 593868,
      666331, 747635, 838861, 941217,
      1056063, 1184922, 1329505, 1491729,
      1673747, 1877975, 2107123, 2364231,
      2652711, 2976390, 3339565, 3747054,
      4204263, 4717261, 5292854, 5938680,
      6663308, 7476355, 8388608, 9412173,
      10560632, 11849224, 13295048, 14917289,
      16737473, 18779754, 21071231, 23642310,
      26527108, 29763904, 33395650, 37470536,
      42042632, 47172609, 52928538, 59386797,
      66633082, 74763547, 83886080, 94121730,
      105606318, 118492237, 132950477, 149172889,
      167374734, 187797541, 210712306, 236423096,
      265271077, 297639044, 333956500, 374705355,
      420426324, 471726094, 529285383, 593867967,
      666330818, 747635475, 838860800, 941217298,
      1056063178, 1184922375, 1329504771, 1491728889,
      1673747342, 1877975405, 2107123061
   >>

(***************************************************************************)
(* Per-variant parameters.                                                 *)
(***************************************************************************)
Variants == {"acm8623", "acm8635"}

dsp_cfg_preboot(v) == IF v = "acm8623" THEN acm8623_dsp_cfg_preboot ELSE acm8635_dsp_cfg_preboot

dsp_cfg_default(v) == IF v = "acm8623" THEN acm8623_dsp_cfg_default ELSE acm8635_dsp_cfg_default

\* a table whose second entry repeats the first
volume_table_flat(v) ==
   LET t == IF v = "acm8623" THEN acm8623_volume ELSE acm8635_volume
   IN  [i \in 1..Len(t) |-> IF i = 2 THEN t[1] ELSE t[i]]

volume_table(v) == IF v = "acm8623" THEN acm8623_volume ELSE acm8635_volume

\* ARRAY_SIZE(table) - 1
VOLUME_MAX(v) == Len(volume_table(v)) - 1

\* the page refresh selects before the gain writes
GainPage(v) == IF v = "acm8623" THEN 5 ELSE 4

\* the register offset of channel ch's gain (ch = 0, 1)
GainOffset(v, ch) ==
   IF v = "acm8623" THEN (IF ch = 0 THEN 196 ELSE 192)
                    ELSE (IF ch = 0 THEN 124 ELSE 128)

\* errno of a rejected argument or firmware file; the handlers return -EINVAL
EINVAL == 22

(***************************************************************************)
(* C integers.  ucontrol->value.integer.value[] is an array of long, 64    *)
(* bits wide on an LP64 kernel; a long is kept as its two 32-bit halves,   *)
(* hi the upper word and lo the lower word, both read as signed. The       *)
(* driver keeps volumes in int and passes the long to volume_is_valid(int).*)
(***************************************************************************)
Long(h, l) == [hi |-> h, lo |-> l]

\* (long) i, the promotion the comparison in vol_put applies to vol[]
IntToLong(i) == Long(IF i < 0 THEN -1 ELSE 0, i)

\* (int) x, the narrowing at the call of volume_is_valid and at vol[] = ...
LongToInt(x) == x.lo

\* the mathematical value of x lies in lo..hi, for int bounds 0 <= lo <= hi
LongInRange(x, lo, hi) == x.hi = 0 /\ x.lo >= lo /\ x.lo <= hi

RECURSIVE BitOr(_, _)
BitOr(a, b) ==
   IF a = 0 THEN b
   ELSE IF b = 0 THEN a
   ELSE (IF (a % 2 = 1) \/ (b % 2 = 1) THEN 1 ELSE 0) + 2 * BitOr(a \div 2, b \div 2)

(***************************************************************************)
(* Transport calls: regmap_write, regmap_bulk_write, regmap_read.          *)
(***************************************************************************)
RegWrite(reg, val) == [kind |-> "write", reg |-> reg, val |-> <<val>>]

RegBulkWrite(reg, bytes) == [kind |-> "bulk", reg |-> reg, val |-> bytes]

RegRead(reg) == [kind |-> "read", reg |-> reg, val |-> <<>>]

NoCall == [op |-> "none", kind |-> "none", reg |-> 0, val |-> <<>>, ok |-> TRUE]

\* the four bytes set_dsp_scale sends: v[3 - i] = x; x >>= 8
\* the four bytes with the least significant byte first
ScaleBytes_le(x) ==
   << x % 256, (x \div 256) % 256, (x \div 65536) % 256, (x \div 16777216) % 256 >>

ScaleBytes(x) ==
   << (x \div 16777216) % 256, (x \div 65536) % 256, (x \div 256) % 256, x % 256 >>

set_dsp_scale(v, offset, volidx) ==
   RegBulkWrite(offset, ScaleBytes(volume_table(v)[volidx + 1]))

volume_is_valid(v, i) == (i >= VOLUME_MIN) /\ (i <= VOLUME_MAX(v))

VARIABLES
   variant,        \* which of the two driver files this instance is
   fw,             \* what request_firmware finds: [present, data]
   probe_ret,      \* return value of i2c_probe
   dsp_cfg_data,   \* priv->dsp_cfg_data, << >> for NULL
   dsp_cfg_len,    \* priv->dsp_cfg_len
   vol,            \* priv->vol[2], as <<vol[0], vol[1]>>
   is_powered,     \* priv->is_powered
   is_muted,       \* priv->is_muted
   lock,           \* priv->lock: the thread that holds the mutex, or "none"
   work,           \* priv->work: [pending, canceler]
   wk,             \* the worker thread running do_work
   vp,             \* the caller of vol_put
   vg,             \* the caller of vol_get
   mu,             \* the caller of mute
   pm,             \* the caller of dac_event
   rm,             \* the caller of i2c_remove
   tr,             \* the last trigger call: [cmd, ret]
   chip,           \* the amplifier: [page, ds, ds_prev]
   bus,            \* the last transport call: [op, kind, reg, val, ok]
   faults,         \* how many transport calls may still fail
   interleaved,    \* a transport call was made inside another thread's sequence
   ghost,          \* bookkeeping on cancelled boot tasks
   twin            \* an acm8635 device that is given the same events

cfgvars == <<variant, fw, probe_ret, dsp_cfg_data, dsp_cfg_len, twin>>

privvars == <<vol, is_powered, is_muted>>

xfervars == <<chip, bus, faults, interleaved>>

vars == <<variant, fw, probe_ret, dsp_cfg_data, dsp_cfg_len, vol, is_powered, is_muted,
          lock, work, wk, vp, vg, mu, pm, rm, tr, chip, bus, faults, interleaved, ghost,
          twin>>

Ops == {"work", "vol_put", "vol_get", "mute", "dac_event", "remove"}

(***************************************************************************)
(* A thread is inside a register sequence from its first transport call    *)
(* to its last: the boot sequence of do_work, a refresh, or the snapshot   *)
(* of dac_event.                                                           *)
(***************************************************************************)
MidSeq(op) ==
   CASE op = "work"      -> \/ wk.pc = "preboot" /\ wk.i > 0
                            \/ wk.pc \in {"sleep2", "cfg", "power", "refresh"}
     [] op = "vol_put"   -> vp.pc = "refresh" /\ vp.rf > 0
     [] op = "mute"      -> mu.pc = "refresh" /\ mu.rf > 0
     [] op = "dac_event" -> pm.pc = "snap" /\ pm.k > 0
     [] OTHER            -> FALSE

\* what a successful call does to the amplifier
ChipAfter(c, call) ==
   IF call.kind # "write" THEN c
   ELSE IF call.reg = REG_PAGE THEN [c EXCEPT !.page = call.val[1]]
   ELSE IF call.reg = REG_DEVICE_STATE /\ c.page = 0
        THEN [c EXCEPT !.ds = call.val[1], !.ds_prev = c.ds]
   ELSE c

\* values a status register may read as
ReadVals == {0, 1}

(***************************************************************************)
(* One regmap call by thread op.  The call may fail while faults remain;   *)
(* a failed write leaves the amplifier as it was.                          *)
(***************************************************************************)
Xfer(op, call) ==
   \E ok \in (IF faults > 0 THEN {TRUE, FALSE} ELSE {TRUE}) :
   \E rv \in (IF call.kind = "read" THEN ReadVals ELSE {0}) :
      /\ faults' = IF ok THEN faults ELSE faults - 1
      /\ bus' = [op |-> op, kind |-> call.kind, reg |-> call.reg,
                 val |-> IF call.kind = "read" THEN <<rv>> ELSE call.val,
                 ok |-> ok]
      /\ chip' = IF ok THEN ChipAfter(chip, call) ELSE chip
      /\ interleaved' = (interleaved \/ \E o \in Ops \ {op} : MidSeq(o))

(***************************************************************************)
(* acm86xx_refresh: the k-th of its five transport calls.                  *)
(***************************************************************************)
\* refresh that writes the gain of vol[1] before the gain of vol[0]
RefreshCall_swapped(k) ==
   CASE k = 0 -> RegWrite(REG_PAGE, GainPage(variant))
     [] k = 1 -> set_dsp_scale(variant, GainOffset(variant, 1), vol[2])
     [] k = 2 -> set_dsp_scale(variant, GainOffset(variant, 0), vol[1])
     [] k = 3 -> RegWrite(REG_PAGE, 0)
     [] k = 4 -> RegWrite(REG_DEVICE_STATE,
                          BitOr(IF is_muted THEN DEVICE_STATE_MUTE ELSE 0,
                                DEVICE_STATE_PLAY))

\* refresh that writes DEVICE_STATE without the mute bits
RefreshCall_nomute(k) ==
   CASE k = 0 -> RegWrite(REG_PAGE, GainPage(variant))
     [] k = 1 -> set_dsp_scale(variant, GainOffset(variant, 0), vol[1])
     [] k = 2 -> set_dsp_scale(variant, GainOffset(variant, 1), vol[2])
     [] k = 3 -> RegWrite(REG_PAGE, 0)
     [] k = 4 -> RegWrite(REG_DEVICE_STATE, DEVICE_STATE_PLAY)

RefreshCall(k) ==
   CASE k = 0 -> RegWrite(REG_PAGE, GainPage(variant))
     [] k = 1 -> set_dsp_scale(variant, GainOffset(variant, 0), vol[1])
     [] k = 2 -> set_dsp_scale(variant, GainOffset(variant, 1), vol[2])
     [] k = 3 -> RegWrite(REG_PAGE, 0)
     [] k = 4 -> RegWrite(REG_DEVICE_STATE,
                          BitOr(IF is_muted THEN DEVICE_STATE_MUTE ELSE 0,
                                DEVICE_STATE_PLAY))

\* a snapshot that writes HIZ before it reads the fault registers
SnapCall_hizfirst(k) ==
   CASE k = 0 -> RegWrite(REG_PAGE, 0)
     [] k = 1 -> RegWrite(REG_DEVICE_STATE, DEVICE_STATE_HIZ)
     [] k = 2 -> RegRead(REG_STATE_REPORT)
     [] k = 3 -> RegRead(REG_GLOBAL_FAULT1)
     [] k = 4 -> RegRead(REG_GLOBAL_FAULT2)
     [] k = 5 -> RegRead(REG_GLOBAL_FAULT3)

\* the calls of the PRE_PMD branch of dac_event
SnapCall(k) ==
   CASE k = 0 -> RegWrite(REG_PAGE, 0)
     [] k = 1 -> RegRead(REG_STATE_REPORT)
     [] k = 2 -> RegRead(REG_GLOBAL_FAULT1)
     [] k = 3 -> RegRead(REG_GLOBAL_FAULT2)
     [] k = 4 -> RegRead(REG_GLOBAL_FAULT3)
     [] k = 5 -> RegWrite(REG_DEVICE_STATE, DEVICE_STATE_HIZ)

\* send_cfg: the write of loop index i, issued while i + 1 < len
SendCfgCall(s, i) == RegWrite(s[i + 1], s[i + 2])

(***************************************************************************)
(* i2c_probe, as far as it decides the private data: the firmware file is  *)
(* used when request_firmware finds one, rejected when its size is below 2 *)
(* or odd, and the built-in default is used (NULL) when there is none.     *)
(***************************************************************************)
FwAbsent == [present |-> FALSE, data |-> << >>]

FwFile(d) == [present |-> TRUE, data |-> d]

\* the size test without "fw->size & 1"
FwInvalid_sizeonly(f) == f.present /\ (Len(f.data) < 2)

FwInvalid(f) == f.present /\ ((Len(f.data) < 2) \/ (Len(f.data) % 2 = 1))

ProbeRet(f) == IF FwInvalid(f) THEN 0 - EINVAL ELSE 0

ProbeCfgData(f) == IF f.present /\ ~FwInvalid(f) THEN f.data ELSE << >>

ProbeCfgLen(f) == IF f.present /\ ~FwInvalid(f) THEN Len(f.data) ELSE 0

\* vol[] is preset only after the firmware check; devm_kzalloc zeroes the rest
ProbeVol(f) == IF FwInvalid(f) THEN <<0, 0>> ELSE <<VOLUME_0DB, VOLUME_0DB>>

IdleWk == [pc |-> "idle", i |-> 0, rf |-> 0]

IdleVp == [pc |-> "idle", a |-> << >>, ret |-> 0, rf |-> 0]

IdleVg == [pc |-> "idle", out |-> <<0, 0>>]

IdleMu == [pc |-> "idle", mute |-> 0, rf |-> 0]

IdlePm == [pc |-> "idle", k |-> 0]

\* stale_pending / stale_running: the queued / running boot task was scheduled
\* before the latest dac_event call began; cancel_pc: where the running task was
\* when a cancel_work_sync was begun on it; boot_failed: a write of the running
\* boot sequence has failed
NoGhost == [stale_pending |-> FALSE, stale_running |-> FALSE, cancel_pc |-> "none",
            boot_failed |-> FALSE]

\* the acm8635 device after its i2c_probe has found the same firmware file
TwinProbe(f) ==
   [dsp_cfg_data |-> IF f.present /\ ~FwInvalid(f) THEN f.data ELSE << >>,
    dsp_cfg_len |-> IF f.present /\ ~FwInvalid(f) THEN Len(f.data) ELSE 0,
    vol |-> IF FwInvalid(f) THEN <<0, 0>> ELSE <<110, 110>>,
    is_powered |-> FALSE, is_muted |-> FALSE,
    wk |-> IdleWk, vp |-> IdleVp, mu |-> IdleMu, pm |-> IdlePm,
    bus |-> NoCall]

\* the state after i2c_probe, for a variant in V, a firmware file in F and NF faults
InitOn(V, F, NF) ==
   /\ variant \in V
   /\ fw \in F
   /\ probe_ret = ProbeRet(fw)
   /\ dsp_cfg_data = ProbeCfgData(fw)
   /\ dsp_cfg_len = ProbeCfgLen(fw)
   /\ vol = ProbeVol(fw)
   /\ is_powered = FALSE
   /\ is_muted = FALSE
   /\ lock = "none"
   /\ work = [pending |-> FALSE, canceler |-> "none"]
   /\ wk = IdleWk
   /\ vp = IdleVp
   /\ vg = IdleVg
   /\ mu = IdleMu
   /\ pm = IdlePm
   /\ rm = "idle"
   /\ tr = [cmd |-> "none", ret |-> 0]
   /\ chip = [page |-> 0, ds |-> 0, ds_prev |-> 0]
   /\ bus = NoCall
   /\ faults = NF
   /\ interleaved = FALSE
   /\ ghost = NoGhost
   /\ twin = TwinProbe(fw)

\* the component is registered: probe succeeded and remove has not unregistered it
Registered == probe_ret = 0 /\ rm # "gone"

(***************************************************************************)
(* The workqueue: schedule_work queues the item unless it is already       *)
(* pending; while a cancel_work_sync owns the pending bit the item cannot  *)
(* be queued, and the cancel returns once no instance is running.          *)
(***************************************************************************)
CanQueue == ~work.pending /\ work.canceler = "none"

StartCmds == {"START", "RESUME", "PAUSE_RELEASE"}

StopCmds == {"STOP", "SUSPEND", "PAUSE_PUSH"}

\* a trigger whose stop-class commands take a queued boot task off the queue
Trigger_stopcancels(cmd) ==
   /\ Registered
   /\ tr' = [cmd |-> cmd,
             ret |-> IF cmd \in StartCmds \cup StopCmds THEN 0 ELSE 0 - EINVAL]
   /\ IF cmd \in StartCmds /\ CanQueue
         THEN /\ work' = [work EXCEPT !.pending = TRUE]
              /\ ghost' = [ghost EXCEPT !.stale_pending = FALSE]
         ELSE /\ work' = IF cmd \in StopCmds THEN [work EXCEPT !.pending = FALSE] ELSE work
              /\ UNCHANGED ghost
   /\ UNCHANGED <<cfgvars, privvars, lock, wk, vp, vg, mu, pm, rm, xfervars>>

\* a trigger that takes the mutex around schedule_work
Trigger_locking(cmd) ==
   /\ Registered
   /\ lock = "none"
   /\ tr' = [cmd |-> cmd,
             ret |-> IF cmd \in StartCmds \cup StopCmds THEN 0 ELSE 0 - EINVAL]
   /\ IF cmd \in StartCmds /\ CanQueue
         THEN /\ work' = [work EXCEPT !.pending = TRUE]
              /\ ghost' = [ghost EXCEPT !.stale_pending = FALSE]
         ELSE UNCHANGED <<work, ghost>>
   /\ UNCHANGED <<cfgvars, privvars, lock, wk, vp, vg, mu, pm, rm, xfervars>>

\* acm86xx_trigger
Trigger(cmd) ==
   /\ Registered
   /\ tr' = [cmd |-> cmd,
             ret |-> IF cmd \in StartCmds \cup StopCmds THEN 0 ELSE 0 - EINVAL]
   /\ IF cmd \in StartCmds /\ CanQueue
         THEN /\ work' = [work EXCEPT !.pending = TRUE]
              /\ ghost' = [ghost EXCEPT !.stale_pending = FALSE]
         ELSE UNCHANGED <<work, ghost>>
   /\ UNCHANGED <<cfgvars, privvars, lock, wk, vp, vg, mu, pm, rm, xfervars>>

(***************************************************************************)
(* do_work                                                                 *)
(***************************************************************************)
WorkStart ==
   /\ work.pending /\ wk.pc = "idle"
   /\ work' = [work EXCEPT !.pending = FALSE]
   /\ wk' = [IdleWk EXCEPT !.pc = "lock"]
   /\ ghost' = [ghost EXCEPT !.stale_running = ghost.stale_pending,
                             !.stale_pending = FALSE]
   /\ UNCHANGED <<cfgvars, privvars, lock, vp, vg, mu, pm, rm, tr, xfervars>>

WorkLock ==
   /\ wk.pc = "lock" /\ lock = "none"
   /\ lock' = "work"
   /\ wk' = [wk EXCEPT !.pc = "sleep1"]
   /\ UNCHANGED <<cfgvars, privvars, work, vp, vg, mu, pm, rm, tr, xfervars, ghost>>

\* do_work that sets is_powered before the first wait
WorkSleep1_powered ==
   /\ wk.pc = "sleep1"
   /\ is_powered' = TRUE
   /\ wk' = [wk EXCEPT !.pc = "preboot", !.i = 0]
   /\ UNCHANGED <<cfgvars, vol, is_muted, lock, work, vp, vg, mu, pm, rm, tr, xfervars, ghost>>

\* usleep_range(5000, 10000)
WorkSleep1 ==
   /\ wk.pc = "sleep1"
   /\ wk' = [wk EXCEPT !.pc = "preboot", !.i = 0]
   /\ UNCHANGED <<cfgvars, privvars, lock, work, vp, vg, mu, pm, rm, tr, xfervars, ghost>>

\* send_cfg whose loop index advances by one
WorkSendCfg_step1(at, s, len, next) ==
   /\ wk.pc = at
   /\ IF wk.i + 1 < len
         THEN /\ Xfer("work", SendCfgCall(s, wk.i))
              /\ wk' = [wk EXCEPT !.i = wk.i + 1]
              /\ ghost' = [ghost EXCEPT !.boot_failed = (@ \/ ~bus'.ok)]
         ELSE /\ wk' = [wk EXCEPT !.pc = next, !.i = 0]
              /\ UNCHANGED <<xfervars, ghost>>
   /\ UNCHANGED <<cfgvars, privvars, lock, work, vp, vg, mu, pm, rm, tr>>

\* one turn of the loop of send_cfg over s, by the worker at wk.pc = at
WorkSendCfg(at, s, len, next) ==
   /\ wk.pc = at
   /\ IF wk.i + 1 < len
         THEN /\ Xfer("work", SendCfgCall(s, wk.i))
              /\ wk' = [wk EXCEPT !.i = wk.i + 2]
              /\ ghost' = [ghost EXCEPT !.boot_failed = (@ \/ ~bus'.ok)]
         ELSE /\ wk' = [wk EXCEPT !.pc = next, !.i = 0]
              /\ UNCHANGED <<xfervars, ghost>>
   /\ UNCHANGED <<cfgvars, privvars, lock, work, vp, vg, mu, pm, rm, tr>>

\* do_work without the second usleep_range
WorkPreboot_nowait ==
   WorkSendCfg("preboot", dsp_cfg_preboot(variant), Len(dsp_cfg_preboot(variant)), "cfg")

WorkPreboot ==
   WorkSendCfg("preboot", dsp_cfg_preboot(variant), Len(dsp_cfg_preboot(variant)), "sleep2")

\* usleep_range(5000, 15000)
WorkSleep2 ==
   /\ wk.pc = "sleep2"
   /\ wk' = [wk EXCEPT !.pc = "cfg", !.i = 0]
   /\ UNCHANGED <<cfgvars, privvars, lock, work, vp, vg, mu, pm, rm, tr, xfervars, ghost>>

\* do_work that replays the preboot table again in place of the configuration
WorkCfg_preboot ==
   WorkSendCfg("cfg", dsp_cfg_preboot(variant), Len(dsp_cfg_preboot(variant)), "power")

WorkCfg ==
   IF dsp_cfg_data # << >>
      THEN WorkSendCfg("cfg", dsp_cfg_data, dsp_cfg_len, "power")
      ELSE WorkSendCfg("cfg", dsp_cfg_default(variant), Len(dsp_cfg_default(variant)), "power")

\* do_work that leaves is_powered unset
WorkPower_unpowered ==
   /\ wk.pc = "power"
   /\ wk' = [wk EXCEPT !.pc = "refresh", !.rf = 0]
   /\ UNCHANGED <<cfgvars, privvars, lock, work, vp, vg, mu, pm, rm, tr, xfervars, ghost>>

WorkPower ==
   /\ wk.pc = "power"
   /\ is_powered' = TRUE
   /\ wk' = [wk EXCEPT !.pc = "refresh", !.rf = 0]
   /\ UNCHANGED <<cfgvars, vol, is_muted, lock, work, vp, vg, mu, pm, rm, tr, xfervars, ghost>>

WorkRefresh ==
   /\ wk.pc = "refresh"
   /\ Xfer("work", RefreshCall(wk.rf))
   /\ wk' = IF wk.rf = 4 THEN [wk EXCEPT !.pc = "unlock", !.rf = 0]
                         ELSE [wk EXCEPT !.rf = wk.rf + 1]
   /\ UNCHANGED <<cfgvars, privvars, lock, work, vp, vg, mu, pm, rm, tr, ghost>>

\* do_work that returns without mutex_unlock
WorkUnlock_nounlock ==
   /\ wk.pc = "unlock"
   /\ wk' = IdleWk
   /\ ghost' = [ghost EXCEPT !.stale_running = FALSE, !.cancel_pc = "none",
                             !.boot_failed = FALSE]
   /\ UNCHANGED <<cfgvars, privvars, lock, work, vp, vg, mu, pm, rm, tr, xfervars>>

WorkUnlock ==
   /\ wk.pc = "unlock"
   /\ lock' = "none"
   /\ wk' = IdleWk
   /\ ghost' = [ghost EXCEPT !.stale_running = FALSE, !.cancel_pc = "none",
                             !.boot_failed = FALSE]
   /\ UNCHANGED <<cfgvars, privvars, work, vp, vg, mu, pm, rm, tr, xfervars>>

(***************************************************************************)
(* acm86xx_vol_put                                                         *)
(***************************************************************************)
VolPutCall(S) ==
   /\ Registered /\ vp.pc = "idle"
   /\ \E a0 \in S, a1 \in S : vp' = [pc |-> "entry", a |-> <<a0, a1>>, ret |-> 0, rf |-> 0]
   /\ UNCHANGED <<cfgvars, privvars, lock, work, wk, vg, mu, pm, rm, tr, xfervars, ghost>>

\* vol_put without the volume_is_valid test
VolPutEntry_novalidate ==
   /\ vp.pc = "entry"
   /\ vp' = [vp EXCEPT !.pc = "lock"]
   /\ UNCHANGED <<cfgvars, privvars, lock, work, wk, vg, mu, pm, rm, tr, xfervars, ghost>>

VolPutEntry ==
   /\ vp.pc = "entry"
   /\ IF volume_is_valid(variant, LongToInt(vp.a[1])) /\ volume_is_valid(variant, LongToInt(vp.a[2]))
         THEN vp' = [vp EXCEPT !.pc = "lock"]
         ELSE vp' = [IdleVp EXCEPT !.ret = 0 - EINVAL]
   /\ UNCHANGED <<cfgvars, privvars, lock, work, wk, vg, mu, pm, rm, tr, xfervars, ghost>>

\* vol_put without mutex_lock
VolPutLock_nomutex ==
   /\ vp.pc = "lock"
   /\ vp' = [vp EXCEPT !.pc = "cmp"]
   /\ UNCHANGED <<cfgvars, privvars, lock, work, wk, vg, mu, pm, rm, tr, xfervars, ghost>>

VolPutLock ==
   /\ vp.pc = "lock" /\ lock = "none"
   /\ lock' = "vol_put"
   /\ vp' = [vp EXCEPT !.pc = "cmp"]
   /\ UNCHANGED <<cfgvars, privvars, work, wk, vg, mu, pm, rm, tr, xfervars, ghost>>

\* the comparison with && in place of ||
VolPutCmp_and ==
   /\ vp.pc = "cmp"
   /\ IF IntToLong(vol[1]) # vp.a[1] /\ IntToLong(vol[2]) # vp.a[2]
         THEN vp' = [vp EXCEPT !.pc = "set0"]
         ELSE vp' = [vp EXCEPT !.pc = "unlock"]
   /\ UNCHANGED <<cfgvars, privvars, lock, work, wk, vg, mu, pm, rm, tr, xfervars, ghost>>

VolPutCmp ==
   /\ vp.pc = "cmp"
   /\ IF IntToLong(vol[1]) # vp.a[1] \/ IntToLong(vol[2]) # vp.a[2]
         THEN vp' = [vp EXCEPT !.pc = "set0"]
         ELSE vp' = [vp EXCEPT !.pc = "unlock"]
   /\ UNCHANGED <<cfgvars, privvars, lock, work, wk, vg, mu, pm, rm, tr, xfervars, ghost>>

VolPutSet0 ==
   /\ vp.pc = "set0"
   /\ vol' = [vol EXCEPT ![1] = LongToInt(vp.a[1])]
   /\ vp' = [vp EXCEPT !.pc = "set1"]
   /\ UNCHANGED <<cfgvars, is_powered, is_muted, lock, work, wk, vg, mu, pm, rm, tr, xfervars, ghost>>

\* vol_put that refreshes without the is_powered test
VolPutSet1_always ==
   /\ vp.pc = "set1"
   /\ vol' = [vol EXCEPT ![2] = LongToInt(vp.a[2])]
   /\ vp' = [vp EXCEPT !.pc = "refresh", !.rf = 0]
   /\ UNCHANGED <<cfgvars, is_powered, is_muted, lock, work, wk, vg, mu, pm, rm, tr, xfervars, ghost>>

VolPutSet1 ==
   /\ vp.pc = "set1"
   /\ vol' = [vol EXCEPT ![2] = LongToInt(vp.a[2])]
   /\ IF is_powered
         THEN vp' = [vp EXCEPT !.pc = "refresh", !.rf = 0]
         ELSE vp' = [vp EXCEPT !.pc = "unlock", !.ret = 1]
   /\ UNCHANGED <<cfgvars, is_powered, is_muted, lock, work, wk, vg, mu, pm, rm, tr, xfervars, ghost>>

VolPutRefresh ==
   /\ vp.pc = "refresh"
   /\ Xfer("vol_put", RefreshCall(vp.rf))
   /\ vp' = IF vp.rf = 4 THEN [vp EXCEPT !.pc = "unlock", !.rf = 0, !.ret = 1]
                         ELSE [vp EXCEPT !.rf = vp.rf + 1]
   /\ UNCHANGED <<cfgvars, privvars, lock, work, wk, vg, mu, pm, rm, tr, ghost>>

VolPutUnlock ==
   /\ vp.pc = "unlock"
   /\ lock' = "none"
   /\ vp' = [IdleVp EXCEPT !.ret = vp.ret]
   /\ UNCHANGED <<cfgvars, privvars, work, wk, vg, mu, pm, rm, tr, xfervars, ghost>>

(***************************************************************************)
(* acm86xx_vol_get                                                         *)
(***************************************************************************)
VolGetCall ==
   /\ Registered /\ vg.pc = "idle"
   /\ vg' = [vg EXCEPT !.pc = "lock"]
   /\ UNCHANGED <<cfgvars, privvars, lock, work, wk, vp, mu, pm, rm, tr, xfervars, ghost>>

\* vol_get without mutex_lock
VolGetLock_nomutex ==
   /\ vg.pc = "lock"
   /\ vg' = [vg EXCEPT !.pc = "get0"]
   /\ UNCHANGED <<cfgvars, privvars, lock, work, wk, vp, mu, pm, rm, tr, xfervars, ghost>>

VolGetLock ==
   /\ vg.pc = "lock" /\ lock = "none"
   /\ lock' = "vol_get"
   /\ vg' = [vg EXCEPT !.pc = "get0"]
   /\ UNCHANGED <<cfgvars, privvars, work, wk, vp, mu, pm, rm, tr, xfervars, ghost>>

VolGet0 ==
   /\ vg.pc = "get0"
   /\ vg' = [vg EXCEPT !.pc = "get1", !.out[1] = vol[1]]
   /\ UNCHANGED <<cfgvars, privvars, lock, work, wk, vp, mu, pm, rm, tr, xfervars, ghost>>

VolGet1 ==
   /\ vg.pc = "get1"
   /\ vg' = [vg EXCEPT !.pc = "unlock", !.out[2] = vol[2]]
   /\ UNCHANGED <<cfgvars, privvars, lock, work, wk, vp, mu, pm, rm, tr, xfervars, ghost>>

VolGetUnlock ==
   /\ vg.pc = "unlock"
   /\ lock' = "none"
   /\ vg' = [vg EXCEPT !.pc = "idle"]
   /\ UNCHANGED <<cfgvars, privvars, work, wk, vp, mu, pm, rm, tr, xfervars, ghost>>

(***************************************************************************)
(* acm86xx_mute                                                            *)
(***************************************************************************)
MuteCall(M) ==
   /\ Registered /\ mu.pc = "idle"
   /\ \E m \in M : mu' = [pc |-> "lock", mute |-> m, rf |-> 0]
   /\ UNCHANGED <<cfgvars, privvars, lock, work, wk, vp, vg, pm, rm, tr, xfervars, ghost>>

MuteLock ==
   /\ mu.pc = "lock" /\ lock = "none"
   /\ lock' = "mute"
   /\ mu' = [mu EXCEPT !.pc = "set"]
   /\ UNCHANGED <<cfgvars, privvars, work, wk, vp, vg, pm, rm, tr, xfervars, ghost>>

\* mute that stores the flag and never refreshes
MuteSet_norefresh ==
   /\ mu.pc = "set"
   /\ is_muted' = (mu.mute # 0)
   /\ mu' = [mu EXCEPT !.pc = "unlock"]
   /\ UNCHANGED <<cfgvars, vol, is_powered, lock, work, wk, vp, vg, pm, rm, tr, xfervars, ghost>>

\* mute that stores the flag only on a powered device
MuteSet_onlypowered ==
   /\ mu.pc = "set"
   /\ is_muted' = IF is_powered THEN (mu.mute # 0) ELSE is_muted
   /\ mu' = IF is_powered THEN [mu EXCEPT !.pc = "refresh", !.rf = 0]
                          ELSE [mu EXCEPT !.pc = "unlock"]
   /\ UNCHANGED <<cfgvars, vol, is_powered, lock, work, wk, vp, vg, pm, rm, tr, xfervars, ghost>>

MuteSet ==
   /\ mu.pc = "set"
   /\ is_muted' = (mu.mute # 0)
   /\ mu' = IF is_powered THEN [mu EXCEPT !.pc = "refresh", !.rf = 0]
                          ELSE [mu EXCEPT !.pc = "unlock"]
   /\ UNCHANGED <<cfgvars, vol, is_powered, lock, work, wk, vp, vg, pm, rm, tr, xfervars, ghost>>

MuteRefresh ==
   /\ mu.pc = "refresh"
   /\ Xfer("mute", RefreshCall(mu.rf))
   /\ mu' = IF mu.rf = 4 THEN [mu EXCEPT !.pc = "unlock", !.rf = 0]
                         ELSE [mu EXCEPT !.rf = mu.rf + 1]
   /\ UNCHANGED <<cfgvars, privvars, lock, work, wk, vp, vg, pm, rm, tr, ghost>>

MuteUnlock ==
   /\ mu.pc = "unlock"
   /\ lock' = "none"
   /\ mu' = IdleMu
   /\ UNCHANGED <<cfgvars, privvars, work, wk, vp, vg, pm, rm, tr, xfervars, ghost>>

(***************************************************************************)
(* acm86xx_dac_event, SND_SOC_DAPM_PRE_PMD                                 *)
(***************************************************************************)
\* dac_event that leaves a queued boot task on the queue
PmdCall_nocancel ==
   /\ Registered /\ pm.pc = "idle"
   /\ work.canceler = "none"
   /\ work' = [work EXCEPT !.canceler = "dac_event"]
   /\ pm' = [pc |-> "flush", k |-> 0]
   /\ ghost' = [ghost EXCEPT !.stale_pending = work'.pending,
                             !.stale_running = (wk.pc # "idle"),
                             !.cancel_pc = IF wk.pc # "idle" THEN wk.pc ELSE @]
   /\ UNCHANGED <<cfgvars, privvars, lock, wk, vp, vg, mu, rm, tr, xfervars>>

\* entry and the first half of cancel_work_sync: take the item off the queue
PmdCall ==
   /\ Registered /\ pm.pc = "idle"
   /\ work.canceler = "none"
   /\ work' = [pending |-> FALSE, canceler |-> "dac_event"]
   /\ pm' = [pc |-> "flush", k |-> 0]
   /\ ghost' = [ghost EXCEPT !.stale_pending = work'.pending,
                             !.stale_running = (wk.pc # "idle"),
                             !.cancel_pc = IF wk.pc # "idle" THEN wk.pc ELSE @]
   /\ UNCHANGED <<cfgvars, privvars, lock, wk, vp, vg, mu, rm, tr, xfervars>>

\* cancel_work in place of cancel_work_sync: no wait for a running instance
PmdFlush_nowait ==
   /\ pm.pc = "flush"
   /\ work' = [work EXCEPT !.canceler = "none"]
   /\ pm' = [pm EXCEPT !.pc = "lock"]
   /\ UNCHANGED <<cfgvars, privvars, lock, wk, vp, vg, mu, rm, tr, xfervars, ghost>>

\* the second half of cancel_work_sync: wait until no instance is running
PmdFlush ==
   /\ pm.pc = "flush"
   /\ wk.pc = "idle"
   /\ work' = [work EXCEPT !.canceler = "none"]
   /\ pm' = [pm EXCEPT !.pc = "lock"]
   /\ UNCHANGED <<cfgvars, privvars, lock, wk, vp, vg, mu, rm, tr, xfervars, ghost>>

PmdLock ==
   /\ pm.pc = "lock" /\ lock = "none"
   /\ lock' = "dac_event"
   /\ pm' = [pm EXCEPT !.pc = "check"]
   /\ UNCHANGED <<cfgvars, privvars, work, wk, vp, vg, mu, rm, tr, xfervars, ghost>>

\* dac_event without the is_powered test
PmdCheck_always ==
   /\ pm.pc = "check"
   /\ is_powered' = FALSE
   /\ pm' = [pm EXCEPT !.pc = "snap", !.k = 0]
   /\ UNCHANGED <<cfgvars, vol, is_muted, lock, work, wk, vp, vg, mu, rm, tr, xfervars, ghost>>

\* dac_event that gives the lock back before the snapshot
PmdCheck_unlocked ==
   /\ pm.pc = "check"
   /\ IF is_powered
         THEN /\ is_powered' = FALSE
              /\ lock' = "none"
              /\ pm' = [pm EXCEPT !.pc = "snap", !.k = 0]
         ELSE /\ pm' = [pm EXCEPT !.pc = "unlock"]
              /\ UNCHANGED <<is_powered, lock>>
   /\ UNCHANGED <<cfgvars, vol, is_muted, work, wk, vp, vg, mu, rm, tr, xfervars, ghost>>

PmdCheck ==
   /\ pm.pc = "check"
   /\ IF is_powered
         THEN /\ is_powered' = FALSE
              /\ pm' = [pm EXCEPT !.pc = "snap", !.k = 0]
         ELSE /\ pm' = [pm EXCEPT !.pc = "unlock"]
              /\ UNCHANGED is_powered
   /\ UNCHANGED <<cfgvars, vol, is_muted, lock, work, wk, vp, vg, mu, rm, tr, xfervars, ghost>>

PmdSnap ==
   /\ pm.pc = "snap"
   /\ Xfer("dac_event", SnapCall(pm.k))
   /\ pm' = IF pm.k = 5 THEN [pm EXCEPT !.pc = "unlock", !.k = 0]
                        ELSE [pm EXCEPT !.k = pm.k + 1]
   /\ UNCHANGED <<cfgvars, privvars, lock, work, wk, vp, vg, mu, rm, tr, ghost>>

PmdUnlock ==
   /\ pm.pc = "unlock"
   /\ lock' = "none"
   /\ pm' = IdlePm
   /\ UNCHANGED <<cfgvars, privvars, work, wk, vp, vg, mu, rm, tr, xfervars, ghost>>

(***************************************************************************)
(* acm86xx_i2c_remove                                                      *)
(***************************************************************************)
RemoveCall ==
   /\ Registered /\ rm = "idle"
   /\ work.canceler = "none"
   /\ work' = [pending |-> FALSE, canceler |-> "remove"]
   /\ rm' = "flush"
   /\ ghost' = [ghost EXCEPT !.cancel_pc = IF wk.pc # "idle" THEN wk.pc ELSE ghost.cancel_pc]
   /\ UNCHANGED <<cfgvars, privvars, lock, wk, vp, vg, mu, pm, tr, xfervars>>

RemoveFlush ==
   /\ rm = "flush"
   /\ wk.pc = "idle"
   /\ work' = [work EXCEPT !.canceler = "none"]
   /\ rm' = "unreg"
   /\ UNCHANGED <<cfgvars, privvars, lock, wk, vp, vg, mu, pm, tr, xfervars, ghost>>

\* snd_soc_unregister_component: no callback is entered afterwards
RemoveUnregister ==
   /\ rm = "unreg"
   /\ vp.pc = "idle" /\ vg.pc = "idle" /\ mu.pc = "idle" /\ pm.pc = "idle"
   /\ rm' = "gone"
   /\ UNCHANGED <<cfgvars, privvars, lock, work, wk, vp, vg, mu, pm, tr, xfervars, ghost>>

(***************************************************************************)
(* The acm8635 driver, run beside an acm8623 device.  The twin record t    *)
(* holds the acm8635 device: its private data, where each of its threads   *)
(* is, and its last transport call.  Each operator below is one step of    *)
(* one function of acm8635.c at the place its thread is in; the scheduling *)
(* and the inputs (arguments, values read from the chip) are those of the  *)
(* acm8623 device.                                                         *)
(***************************************************************************)
TwinCall(op, call) ==
   [op |-> op, kind |-> call.kind, reg |-> call.reg, val |-> call.val, ok |-> TRUE]

\* acm8635_refresh whose fourth call selects the gain page again
acm8635_refresh_nopage(t, k) ==
   CASE k = 0 -> RegWrite(REG_PAGE, 4)
     [] k = 1 -> RegBulkWrite(124, ScaleBytes(acm8635_volume[t.vol[1] + 1]))
     [] k = 2 -> RegBulkWrite(128, ScaleBytes(acm8635_volume[t.vol[2] + 1]))
     [] k = 3 -> RegWrite(REG_PAGE, 4)
     [] k = 4 -> RegWrite(REG_DEVICE_STATE,
                          BitOr(IF t.is_muted THEN DEVICE_STATE_MUTE ELSE 0,
                                DEVICE_STATE_PLAY))

\* acm8635_refresh: the k-th of its five transport calls
acm8635_refresh(t, k) ==
   CASE k = 0 -> RegWrite(REG_PAGE, 4)
     [] k = 1 -> RegBulkWrite(124, ScaleBytes(acm8635_volume[t.vol[1] + 1]))
     [] k = 2 -> RegBulkWrite(128, ScaleBytes(acm8635_volume[t.vol[2] + 1]))
     [] k = 3 -> RegWrite(REG_PAGE, 0)
     [] k = 4 -> RegWrite(REG_DEVICE_STATE,
                          BitOr(IF t.is_muted THEN DEVICE_STATE_MUTE ELSE 0,
                                DEVICE_STATE_PLAY))

\* send_cfg of acm8635.c: one turn of its loop over s by the worker
acm8635_send_cfg(t, s, len, next) ==
   IF t.wk.i + 1 < len
      THEN [t EXCEPT !.bus = TwinCall("work", RegWrite(s[t.wk.i + 1], s[t.wk.i + 2])),
                     !.wk.i = t.wk.i + 2]
      ELSE [t EXCEPT !.wk.pc = next, !.wk.i = 0]

\* do_work of acm8635.c
acm8635_do_work(t) ==
   CASE t.wk.pc = "idle"    -> [t EXCEPT !.wk = [IdleWk EXCEPT !.pc = "lock"]]
     [] t.wk.pc = "lock"    -> [t EXCEPT !.wk.pc = "sleep1"]
     [] t.wk.pc = "sleep1"  -> [t EXCEPT !.wk.pc = "preboot", !.wk.i = 0]
     [] t.wk.pc = "preboot" -> acm8635_send_cfg(t, acm8635_dsp_cfg_preboot,
                                                Len(acm8635_dsp_cfg_preboot), "sleep2")
     [] t.wk.pc = "sleep2"  -> [t EXCEPT !.wk.pc = "cfg", !.wk.i = 0]
     [] t.wk.pc = "cfg"     ->
           IF t.dsp_cfg_data # << >>
              THEN acm8635_send_cfg(t, t.dsp_cfg_data, t.dsp_cfg_len, "power")
              ELSE acm8635_send_cfg(t, acm8635_dsp_cfg_default,
                                    Len(acm8635_dsp_cfg_default), "power")
     [] t.wk.pc = "power"   -> [t EXCEPT !.is_powered = TRUE, !.wk.pc = "refresh", !.wk.rf = 0]
     [] t.wk.pc = "refresh" ->
           [t EXCEPT !.bus = TwinCall("work", acm8635_refresh(t, t.wk.rf)),
                     !.wk = IF t.wk.rf = 4 THEN [@ EXCEPT !.pc = "unlock", !.rf = 0]
                                           ELSE [@ EXCEPT !.rf = @ + 1]]
     [] t.wk.pc = "unlock"  -> [t EXCEPT !.wk = IdleWk]

\* acm8635_vol_put, called with the pair a
acm8635_vol_put(t, a) ==
   CASE t.vp.pc = "idle"    -> [t EXCEPT !.vp = [pc |-> "entry", a |-> a, ret |-> 0, rf |-> 0]]
     [] t.vp.pc = "entry"   ->
           IF /\ LongToInt(t.vp.a[1]) >= 0 /\ LongToInt(t.vp.a[1]) <= Len(acm8635_volume) - 1
              /\ LongToInt(t.vp.a[2]) >= 0 /\ LongToInt(t.vp.a[2]) <= Len(acm8635_volume) - 1
              THEN [t EXCEPT !.vp.pc = "lock"]
              ELSE [t EXCEPT !.vp = [IdleVp EXCEPT !.ret = 0 - EINVAL]]
     [] t.vp.pc = "lock"    -> [t EXCEPT !.vp.pc = "cmp"]
     [] t.vp.pc = "cmp"     ->
           IF IntToLong(t.vol[1]) # t.vp.a[1] \/ IntToLong(t.vol[2]) # t.vp.a[2]
              THEN [t EXCEPT !.vp.pc = "set0"]
              ELSE [t EXCEPT !.vp.pc = "unlock"]
     [] t.vp.pc = "set0"    -> [t EXCEPT !.vol[1] = LongToInt(t.vp.a[1]), !.vp.pc = "set1"]
     [] t.vp.pc = "set1"    ->
           IF t.is_powered
              THEN [t EXCEPT !.vol[2] = LongToInt(t.vp.a[2]), !.vp.pc = "refresh", !.vp.rf = 0]
              ELSE [t EXCEPT !.vol[2] = LongToInt(t.vp.a[2]), !.vp.pc = "unlock", !.vp.ret = 1]
     [] t.vp.pc = "refresh" ->
           [t EXCEPT !.bus = TwinCall("vol_put", acm8635_refresh(t, t.vp.rf)),
                     !.vp = IF t.vp.rf = 4 THEN [@ EXCEPT !.pc = "unlock", !.rf = 0, !.ret = 1]
                                           ELSE [@ EXCEPT !.rf = @ + 1]]
     [] t.vp.pc = "unlock"  -> [t EXCEPT !.vp = [IdleVp EXCEPT !.ret = t.vp.ret]]

\* acm8635_mute, called with mute
acm8635_mute(t, mute) ==
   CASE t.mu.pc = "idle"    -> [t EXCEPT !.mu = [pc |-> "lock", mute |-> mute, rf |-> 0]]
     [] t.mu.pc = "lock"    -> [t EXCEPT !.mu.pc = "set"]
     [] t.mu.pc = "set"     ->
           [t EXCEPT !.is_muted = (t.mu.mute # 0),
                     !.mu.pc = IF t.is_powered THEN "refresh" ELSE "unlock",
                     !.mu.rf = 0]
     [] t.mu.pc = "refresh" ->
           [t EXCEPT !.bus = TwinCall("mute", acm8635_refresh(t, t.mu.rf)),
                     !.mu = IF t.mu.rf = 4 THEN [@ EXCEPT !.pc = "unlock", !.rf = 0]
                                           ELSE [@ EXCEPT !.rf = @ + 1]]
     [] t.mu.pc = "unlock"  -> [t EXCEPT !.mu = IdleMu]

\* acm8635_dac_event, SND_SOC_DAPM_PRE_PMD; rv is what a register read returns
acm8635_dac_event(t, rv) ==
   CASE t.pm.pc = "idle"    -> [t EXCEPT !.pm = [pc |-> "flush", k |-> 0]]
     [] t.pm.pc = "flush"   -> [t EXCEPT !.pm.pc = "lock"]
     [] t.pm.pc = "lock"    -> [t EXCEPT !.pm.pc = "check"]
     [] t.pm.pc = "check"   ->
           IF t.is_powered
              THEN [t EXCEPT !.is_powered = FALSE, !.pm.pc = "snap", !.pm.k = 0]
              ELSE [t EXCEPT !.pm.pc = "unlock"]
     [] t.pm.pc = "snap"    ->
           [t EXCEPT !.bus = [TwinCall("dac_event", SnapCall(t.pm.k)) EXCEPT
                                 !.val = IF t.pm.k \in 1..4 THEN rv ELSE @],
                     !.pm = IF t.pm.k = 5 THEN [@ EXCEPT !.pc = "unlock", !.k = 0]
                                          ELSE [@ EXCEPT !.k = @ + 1]]
     [] t.pm.pc = "unlock"  -> [t EXCEPT !.pm = IdlePm]

\* every thread of the twin is where the thread of the acm8623 device is
Synced == twin.wk = wk /\ twin.vp = vp /\ twin.mu = mu /\ twin.pm = pm

\* the twin takes the step its counterpart has just taken
TwinStep ==
   /\ ~Synced
   /\ twin' = CASE twin.wk # wk -> acm8635_do_work(twin)
                [] twin.vp # vp -> acm8635_vol_put(twin, vp.a)
                [] twin.mu # mu -> acm8635_mute(twin, mu.mute)
                [] twin.pm # pm -> acm8635_dac_event(twin, bus.val)
   /\ UNCHANGED <<variant, fw, probe_ret, dsp_cfg_data, dsp_cfg_len, privvars, lock, work,
                  wk, vp, vg, mu, pm, rm, tr, xfervars, ghost>>

(***************************************************************************)
(* Specifications.                                                         *)
(***************************************************************************)
\* a two-pair override file: select page 4, write its register 4
FwSmall == <<0, 4, 4, 8>>

\* how many transport calls may fail in the runs with an unreliable transport
MaxFaults == 1

WorkNext ==
   \/ WorkStart
   \/ WorkLock
   \/ WorkSleep1
   \/ WorkPreboot
   \/ WorkSleep2
   \/ WorkCfg
   \/ WorkPower
   \/ WorkRefresh
   \/ WorkUnlock

VolPutNext ==
   \/ VolPutEntry
   \/ VolPutLock
   \/ VolPutCmp
   \/ VolPutSet0
   \/ VolPutSet1
   \/ VolPutRefresh
   \/ VolPutUnlock

VolGetNext ==
   \/ VolGetLock
   \/ VolGet0
   \/ VolGet1
   \/ VolGetUnlock

MuteNext ==
   \/ MuteLock
   \/ MuteSet
   \/ MuteRefresh
   \/ MuteUnlock

PmdNext ==
   \/ PmdFlush
   \/ PmdLock
   \/ PmdCheck
   \/ PmdSnap
   \/ PmdUnlock

RemoveNext ==
   \/ RemoveFlush
   \/ RemoveUnregister

(***************************************************************************)
(* Spec: stream start, set_volume, set_mute and power-down callers run     *)
(* concurrently with the worker; valid arguments, a reliable transport, a  *)
(* short override file.                                                    *)
(***************************************************************************)
Init == InitOn(Variants, {FwFile(FwSmall)}, 0)

Next ==
   \/ Trigger("START")
   \/ WorkNext
   \/ VolPutCall({IntToLong(0), IntToLong(VOLUME_0DB)})
   \/ VolPutNext
   \/ MuteCall({0, 1})
   \/ MuteNext
   \/ PmdCall
   \/ PmdNext

Spec == Init /\ [][Next]_vars

(***************************************************************************)
(* SpecDetach: stream start, power-down and detach race with the worker.   *)
(***************************************************************************)
NextDetach ==
   \/ Trigger("START")
   \/ WorkNext
   \/ PmdCall
   \/ PmdNext
   \/ RemoveCall
   \/ RemoveNext

SpecDetach == Init /\ [][NextDetach]_vars

(***************************************************************************)
(* SpecFaulty: boots and power-downs over a transport that may fail.       *)
(***************************************************************************)
InitFaulty == InitOn(Variants, {FwFile(FwSmall)}, MaxFaults)

NextFaulty ==
   \/ Trigger("START")
   \/ WorkNext
   \/ PmdCall
   \/ PmdNext

SpecFaulty == InitFaulty /\ [][NextFaulty]_vars

(***************************************************************************)
(* SpecArgs: set_volume with arguments inside and outside the table, among *)
(* boots and power-downs.                                                  *)
(***************************************************************************)
\* long values offered to vol_put: -1, 0, the last index, one past it, 2^32
VolArgs == {IntToLong(0 - 1), IntToLong(0), IntToLong(VOLUME_MAX(variant)),
            IntToLong(VOLUME_MAX(variant) + 1), Long(1, 0)}

NextArgs ==
   \/ Trigger("START")
   \/ WorkNext
   \/ VolPutCall(VolArgs)
   \/ VolPutNext
   \/ PmdCall
   \/ PmdNext

SpecArgs == Init /\ [][NextArgs]_vars

(***************************************************************************)
(* SpecCycle: one device, no override file, driven through power_up,       *)
(* set_volume(0, 0), set_mute(true), power_down, one after the other.      *)
(***************************************************************************)
InitCycle == InitOn(Variants, {FwAbsent}, 0)

Quiet == wk.pc = "idle" /\ vp.pc = "idle" /\ mu.pc = "idle" /\ pm.pc = "idle" /\ ~work.pending

NextCycle ==
   \/ Quiet /\ tr.cmd = "none" /\ Trigger("START")
   \/ WorkNext
   \/ Quiet /\ is_powered /\ vol = <<VOLUME_0DB, VOLUME_0DB>> /\ VolPutCall({IntToLong(0)})
   \/ VolPutNext
   \/ Quiet /\ is_powered /\ vol = <<0, 0>> /\ ~is_muted /\ MuteCall({1})
   \/ MuteNext
   \/ Quiet /\ is_powered /\ is_muted /\ PmdCall
   \/ PmdNext

SpecCycle == InitCycle /\ [][NextCycle]_vars

(***************************************************************************)
(* SpecProbe: probe finds no override file, a well-formed one, or one of   *)
(* length 3, 1 or 0; then streams start and stop.                          *)
(***************************************************************************)
FwOdd == <<0, 4, 4>>

FwFiles == {FwAbsent, FwFile(FwSmall), FwFile(FwOdd), FwFile(<<7>>), FwFile(<< >>)}

InitProbe == InitOn(Variants, FwFiles, 0)

NextProbe ==
   \/ Trigger("START")
   \/ WorkNext
   \/ PmdCall
   \/ PmdNext

SpecProbe == InitProbe /\ [][NextProbe]_vars

(***************************************************************************)
(* SpecStop: start-class and stop-class trigger commands and the           *)
(* power-down hook race with the worker.                                   *)
(***************************************************************************)
NextStop ==
   \/ Trigger("START")
   \/ \E cmd \in StopCmds : Trigger(cmd)
   \/ WorkNext
   \/ PmdCall
   \/ PmdNext

SpecStop == Init /\ [][NextStop]_vars

(***************************************************************************)
(* SpecTable: one device is booted and then set_volume is called once      *)
(* with an index drawn from the whole volume table, for both channels.     *)
(***************************************************************************)
NextTable ==
   \/ Quiet /\ tr.cmd = "none" /\ Trigger("START")
   \/ WorkNext
   \/ /\ Quiet /\ is_powered /\ vol = <<VOLUME_0DB, VOLUME_0DB>>
      /\ \E i \in VOLUME_MIN..VOLUME_MAX(variant) : VolPutCall({IntToLong(i)})
   \/ VolPutNext

SpecTable == Init /\ [][NextTable]_vars

(***************************************************************************)
(* SpecTwin: an acm8623 device under stream starts, set_volume, set_mute   *)
(* and power-downs, with the acm8635 twin following it step by step.       *)
(***************************************************************************)
InitTwin == InitOn({"acm8623"}, {FwFile(FwSmall)}, 0)

NextTwin ==
   \/ Synced /\ Trigger("START")
   \/ Synced /\ WorkNext
   \/ Synced /\ VolPutCall({IntToLong(0), IntToLong(VOLUME_0DB)})
   \/ Synced /\ VolPutNext
   \/ Synced /\ MuteCall({0, 1})
   \/ Synced /\ MuteNext
   \/ Synced /\ PmdCall
   \/ Synced /\ PmdNext
   \/ TwinStep

SpecTwin == InitTwin /\ [][NextTwin]_vars

(***************************************************************************)
(* SpecLive: one acm8623 device with one stream start, one set_volume,     *)
(* one get_volume, one set_mute and power-downs until the amplifier is in  *)
(* high impedance, whose callers and worker are scheduled                  *)
(* fairly: a thread that can take a step other than mutex_lock takes it,   *)
(* and a thread that finds the mutex free again and again gets it (the     *)
(* kernel mutex hands the lock over to its longest waiter).                *)
(***************************************************************************)
InitLive == InitOn({"acm8623"}, {FwFile(FwSmall)}, 0)

NextLive ==
   \/ tr.cmd = "none" /\ Trigger("START")
   \/ WorkNext
   \/ vp.ret = 0 /\ VolPutCall({IntToLong(0)})
   \/ VolPutNext
   \/ vg.out = <<0, 0>> /\ VolGetCall
   \/ VolGetNext
   \/ ~is_muted /\ MuteCall({1})
   \/ MuteNext
   \/ chip.ds # DEVICE_STATE_HIZ /\ PmdCall
   \/ PmdNext

Fairness ==
   /\ WF_vars(WorkNext) /\ SF_vars(WorkLock)
   /\ WF_vars(VolPutNext) /\ SF_vars(VolPutLock)
   /\ WF_vars(VolGetNext) /\ SF_vars(VolGetLock)
   /\ WF_vars(MuteNext) /\ SF_vars(MuteLock)
   /\ WF_vars(PmdNext) /\ SF_vars(PmdLock)

SpecLive == InitLive /\ [][NextLive]_vars /\ Fairness

(***************************************************************************)
(* SpecGet: get_volume races with set_volume calls whose two arguments     *)
(* are equal, on a device that may be booted meanwhile.                    *)
(***************************************************************************)
GetArgs == {50, 134}

NextGet ==
   \/ Trigger("START")
   \/ WorkNext
   \/ \E i \in GetArgs : VolPutCall({IntToLong(i)})
   \/ VolPutNext
   \/ VolGetCall
   \/ VolGetNext

SpecGet == Init /\ [][NextGet]_vars

(***************************************************************************)
(* SpecStore: set_volume and set_mute calls before and around the one boot *)
(* of a device that is never powered down.                                 *)
(***************************************************************************)
NextStore ==
   \/ tr.cmd = "none" /\ Trigger("START")
   \/ WorkNext
   \/ VolPutCall({IntToLong(0), IntToLong(VOLUME_0DB)})
   \/ VolPutNext
   \/ MuteCall({0, 1})
   \/ MuteNext

SpecStore == Init /\ [][NextStore]_vars

(***************************************************************************)
(* SpecRace: stream starts arrive as START while no power-down is in       *)
(* progress and as RESUME while a power-down is between the return of its  *)
(* cancel_work_sync and its own return, so that tr.cmd tells which kind    *)
(* the latest start was.                                                   *)
(***************************************************************************)
NextRace ==
   \/ pm.pc = "idle" /\ Trigger("START")
   \/ pm.pc \notin {"idle", "flush"} /\ Trigger("RESUME")
   \/ WorkNext
   \/ PmdCall
   \/ PmdNext

SpecRace == Init /\ [][NextRace]_vars

(***************************************************************************)
(* SpecSendCfg: send_cfg by itself, applied by the worker under the lock   *)
(* to every byte sequence of up to MaxLen bytes, of odd length as well.    *)
(***************************************************************************)
MaxLen == 5

CfgBytes == {0, 4}

RECURSIVE SeqsUpTo(_)
SeqsUpTo(n) ==
   IF n = 0 THEN {<< >>}
   ELSE LET shorter == SeqsUpTo(n - 1)
        IN  shorter \cup {Append(s, b) : s \in {x \in shorter : Len(x) = n - 1}, b \in CfgBytes}

InitSendCfg ==
   /\ variant \in Variants
   /\ fw \in {FwFile(d) : d \in SeqsUpTo(MaxLen)}
   /\ probe_ret = ProbeRet(fw)
   /\ dsp_cfg_data = ProbeCfgData(fw)
   /\ dsp_cfg_len = ProbeCfgLen(fw)
   /\ vol = ProbeVol(fw)
   /\ is_powered = FALSE
   /\ is_muted = FALSE
   /\ lock = "work"
   /\ work = [pending |-> FALSE, canceler |-> "none"]
   /\ wk = [IdleWk EXCEPT !.pc = "cfg"]
   /\ vp = IdleVp
   /\ vg = IdleVg
   /\ mu = IdleMu
   /\ pm = IdlePm
   /\ rm = "idle"
   /\ tr = [cmd |-> "none", ret |-> 0]
   /\ chip = [page |-> 0, ds |-> 0, ds_prev |-> 0]
   /\ bus = NoCall
   /\ faults = 0
   /\ interleaved = FALSE
   /\ ghost = NoGhost
   /\ twin = TwinProbe(fw)

NextSendCfg == WorkSendCfg("cfg", fw.data, Len(fw.data), "power")

SpecSendCfg == InitSendCfg /\ [][NextSendCfg]_vars

(***************************************************************************)
(* The claims.                                                             *)
(***************************************************************************)
\* C1: register sequences never interleave. No transport call is ever made
\* while another thread is between the first and the last call of its boot
\* sequence, refresh or power-down snapshot; at most one thread is inside
\* such a sequence, and it holds the mutex.
C1_NoInterleaving ==
   /\ ~interleaved
   /\ \A o \in Ops : MidSeq(o) => lock = o

\* C1 witness: a refresh of vol_put is under way while the worker, mute and
\* dac_event all wait for the mutex.
C1_Witness ==
   /\ MidSeq("vol_put")
   /\ wk.pc = "lock" /\ mu.pc = "lock" /\ pm.pc = "lock"

\* C2: whenever the device is powered and nobody holds the mutex, the
\* DEVICE_STATE register of the amplifier holds PLAY, or-ed with MUTE exactly
\* when is_muted.
C2_DeviceStateTracksMute ==
   (is_powered /\ lock = "none") =>
      chip.ds = (IF is_muted THEN 15 ELSE 3)

\* C2 witness: the device is powered and muted, the mutex is free, the
\* register reads 0x0F, and a further stream start has queued another boot.
C2_Witness ==
   /\ is_powered /\ lock = "none" /\ is_muted
   /\ chip.ds = 15
   /\ work.pending /\ tr.cmd = "START"

\* C4: once dac_event is past cancel_work_sync, no boot task that was queued
\* or running when dac_event was called is still queued or running; so none
\* can write a register or set is_powered after power-down has returned.
C4_NoStaleBootAfterCancel ==
   (pm.pc # "flush") => (~ghost.stale_pending /\ ~ghost.stale_running)

\* C4 witness: dac_event waits in cancel_work_sync for a boot task that is in
\* the middle of its register sequence.
C4_Witness ==
   /\ pm.pc = "flush"
   /\ ghost.stale_running
   /\ MidSeq("work")

\* where the worker is before it has executed is_powered = true
EarlyPcs == {"lock", "sleep1", "preboot", "sleep2", "cfg", "power"}

C5_FailedBootAborts ==
   ghost.boot_failed => (bus.op = "work" /\ ~bus.ok /\ wk.pc # "refresh")

\* the mathematical value of the long x is below 0 or above VOLUME_MAX
OutOfRange(x) == ~LongInRange(x, VOLUME_MIN, VOLUME_MAX(variant))

\* C6, as claimed: vol_put with an index below 0 or above N-1 returns -EINVAL
\* from its entry check, without the mutex, a register access or a change of
\* vol, is_muted, is_powered.
C6_OutOfRangeRejected ==
   [][(vp.pc = "entry" /\ vp' # vp /\ (OutOfRange(vp.a[1]) \/ OutOfRange(vp.a[2])))
         => (vp'.pc = "idle" /\ vp'.ret = 0 - EINVAL /\ UNCHANGED <<privvars, lock, xfervars>>)]_vars

\* the pair vol_put was asked to store, for arguments inside the table
Requested == <<LongToInt(vp.a[1]), LongToInt(vp.a[2])>>

\* C7: for two indices inside the table, vol_put takes the changing branch
\* exactly when the requested pair differs from the stored pair; the other
\* branch returns 0 with vol, is_muted, is_powered, the amplifier and the bus
\* untouched; the changing branch returns 1 with the requested pair stored.
C7_VolPutChangedIffDiffers ==
   [][(vp' # vp /\ vp.pc \notin {"idle", "entry"}
         /\ ~OutOfRange(vp.a[1]) /\ ~OutOfRange(vp.a[2])) =>
      /\ (vp.pc = "lock") => (vp'.pc = "cmp" /\ UNCHANGED <<privvars, xfervars>>)
      /\ (vp.pc = "cmp" /\ vol = Requested)
            => (vp'.pc = "unlock" /\ vp'.ret = 0 /\ UNCHANGED <<privvars, xfervars>>)
      /\ (vp.pc = "cmp" /\ vol # Requested) => (vp'.pc = "set0" /\ vp'.ret = 0)
      /\ (vp.pc = "set0") => (vp'.pc = "set1" /\ vp'.ret = 0)
      /\ (vp.pc = "set1") => (vp'.pc = (IF is_powered THEN "refresh" ELSE "unlock"))
      /\ (vp.pc = "refresh") => (vp'.pc \in {"refresh", "unlock"})
      /\ (vp.pc \in {"set1", "refresh"} /\ vp'.pc = "unlock")
            => (vp'.ret = 1 /\ vol' = Requested)
      /\ (vp.pc = "unlock")
            => (vp'.pc = "idle" /\ vp'.ret = vp.ret /\ UNCHANGED <<privvars, xfervars>>)
   ]_vars

\* C7 witness: on a powered device vol_put found the stored pair equal to the
\* requested one and is about to return 0, the last bus call still being the
\* worker's.
C7_Witness ==
   /\ vp.pc = "unlock" /\ vp.ret = 0
   /\ ~OutOfRange(vp.a[1]) /\ ~OutOfRange(vp.a[2])
   /\ vol = Requested
   /\ is_powered /\ bus.op = "work"

\* C8: dac_event that finds the device unpowered goes straight to the unlock
\* and returns, and no step of dac_event other than the snapshot of a powered
\* device touches vol, is_muted, is_powered, the amplifier or the bus.
C8_PowerDownIdempotent ==
   [][/\ (pm.pc = "check" /\ ~is_powered)
            => ((pm' # pm => pm'.pc = "unlock") /\ UNCHANGED <<privvars, xfervars>>)
      /\ (pm' # pm /\ pm.pc \in {"idle", "flush", "lock", "unlock"})
            => UNCHANGED <<privvars, xfervars>>
      /\ (pm' # pm /\ pm.pc = "unlock") => (pm' = IdlePm /\ lock' = "none")
   ]_vars

\* C8 witness: a second power-down holds the mutex and finds the device
\* unpowered; no boot task is queued or running and the last bus call is the
\* high-impedance write of the first power-down.
C8_Witness ==
   /\ pm.pc = "check" /\ ~is_powered
   /\ wk.pc = "idle" /\ ~work.pending
   /\ bus.op = "dac_event" /\ bus.reg = REG_DEVICE_STATE /\ bus.val = <<DEVICE_STATE_HIZ>>

\* the cycle power_up, set_volume(0, 0), set_mute(true), power_down is over
CycleDone ==
   /\ pm.pc = "idle" /\ ~is_powered /\ is_muted /\ vol = <<0, 0>> /\ tr.cmd = "START"

\* C9: in the cycle power_up, set_volume(0, 0), set_mute(true), power_down,
\* DEVICE_STATE holds 0x0F all through the snapshot until the high-impedance
\* write, and that write of 0x02 is the last register access of the cycle.
C9_CycleEndsMutedThenHiZ ==
   /\ (pm.pc = "snap") => (chip.ds = 15)
   /\ (pm.pc = "unlock" \/ CycleDone) =>
         /\ chip.ds = 2 /\ chip.ds_prev = 15
         /\ bus = [op |-> "dac_event", kind |-> "write", reg |-> 4, val |-> <<2>>, ok |-> TRUE]

\* C9 witness: the cycle is over and the amplifier is in high impedance.
C9_Witness == CycleDone /\ chip.ds = 2

\* the last write of the loop of send_cfg over s, seen on the bus at index i
ReplayedUpTo(s, i) ==
   bus = [op |-> "work", kind |-> "write", reg |-> s[i - 1], val |-> <<s[i]>>, ok |-> TRUE]

\* the gain bytes of the 0 dB entry: 0x08000000 and 0x00800000
ZeroDbBytes == IF variant = "acm8623" THEN <<8, 0, 0, 0>> ELSE <<0, 128, 0, 0>>

\* C10: a device starts with vol = (110, 110), unmuted and unpowered; without
\* an override file and with no volume or mute call before it, the first boot
\* replays the pairs of the built-in default in order and then issues one
\* refresh: gain page, the 0 dB gain for both channels, page 0, DEVICE_STATE
\* = 0x03.
C10_DefaultBoot ==
   /\ (tr.cmd = "none") =>
         (vol = <<110, 110>> /\ ~is_muted /\ ~is_powered /\ dsp_cfg_data = << >>)
   /\ (vol = <<110, 110>> /\ ~is_muted) =>
         /\ (wk.pc = "cfg" /\ wk.i > 0) => ReplayedUpTo(dsp_cfg_default(variant), wk.i)
         /\ (wk.pc = "power") =>
               ReplayedUpTo(dsp_cfg_default(variant), Len(dsp_cfg_default(variant)))
         /\ (wk.pc = "refresh" /\ wk.rf = 1) =>
               bus = [op |-> "work", kind |-> "write", reg |-> 0,
                      val |-> <<IF variant = "acm8623" THEN 5 ELSE 4>>, ok |-> TRUE]
         /\ (wk.pc = "refresh" /\ wk.rf = 2) =>
               bus = [op |-> "work", kind |-> "bulk",
                      reg |-> IF variant = "acm8623" THEN 196 ELSE 124,
                      val |-> ZeroDbBytes, ok |-> TRUE]
         /\ (wk.pc = "refresh" /\ wk.rf = 3) =>
               bus = [op |-> "work", kind |-> "bulk",
                      reg |-> IF variant = "acm8623" THEN 192 ELSE 128,
                      val |-> ZeroDbBytes, ok |-> TRUE]
         /\ (wk.pc = "refresh" /\ wk.rf = 4) =>
               bus = [op |-> "work", kind |-> "write", reg |-> 0, val |-> <<0>>, ok |-> TRUE]
         /\ (wk.pc = "unlock") =>
               /\ bus = [op |-> "work", kind |-> "write", reg |-> 4, val |-> <<3>>, ok |-> TRUE]
               /\ chip.ds = 3 /\ is_powered

\* C10 witness: the first boot of a device without an override file has
\* finished its refresh with both volumes at 110 and unmuted.
C10_Witness ==
   /\ dsp_cfg_data = << >> /\ vol = <<110, 110>> /\ ~is_muted
   /\ wk.pc = "unlock" /\ bus.reg = REG_DEVICE_STATE /\ bus.val = <<3>>

\* the blob do_work is expected to replay after the second wait
ActiveBlob == IF fw.present THEN fw.data ELSE dsp_cfg_default(variant)

(***************************************************************************)
(* C11: an override file of odd length or of length below 2 makes probe    *)
(* fail: the device is never registered, no transport call is ever made,   *)
(* no boot task is queued or run and is_powered stays false.  The default  *)
(* blob is not put in its place: every configuration write of a boot is    *)
(* the next pair of the file when a file is present, and of the default    *)
(* blob only when there is none.                                           *)
(***************************************************************************)
C11_InvalidOverrideRejected ==
   /\ (fw.present /\ (Len(fw.data) % 2 = 1 \/ Len(fw.data) < 2)) =>
         /\ probe_ret = 0 - EINVAL
         /\ bus = NoCall
         /\ ~is_powered
         /\ ~work.pending /\ wk.pc = "idle"
   /\ (wk.pc = "cfg" /\ wk.i > 0) =>
         /\ wk.i <= Len(ActiveBlob)
         /\ bus.kind = "write"
         /\ bus.reg = ActiveBlob[wk.i - 1]
         /\ bus.val = <<ActiveBlob[wk.i]>>

C11_Witness == fw = FwFile(FwOdd) /\ probe_ret = 0 - EINVAL /\ bus = NoCall

\* the write of the high-impedance value that ends the snapshot of dac_event
HizWrite == [op |-> "dac_event", kind |-> "write", reg |-> REG_DEVICE_STATE,
             val |-> <<DEVICE_STATE_HIZ>>, ok |-> TRUE]

(***************************************************************************)
(* C12 as stated: every stop event, a stop-class trigger command as well   *)
(* as the power-down hook, returns with no boot task queued and with       *)
(* is_powered false.  The trigger half does not hold.                      *)
(***************************************************************************)
C12_EveryStopEventPowersDown ==
   [][/\ (\E cmd \in StopCmds : Trigger(cmd)) => (~work'.pending /\ ~is_powered')
      /\ PmdUnlock => ~is_powered']_vars

(***************************************************************************)
(* C12, amended: a stop-class trigger command returns 0 and changes        *)
(* nothing: the queue, the worker, is_powered and the amplifier are as     *)
(* before.  The power-down hook takes a queued boot task off the queue     *)
(* when it is entered, takes the lock only when no boot task that was     *)
(* queued or running at its entry is left, and when it finds is_powered    *)
(* set it clears it, makes the six calls of the snapshot ending with the   *)
(* write of HIZ to DEVICE_STATE, and returns with is_powered false.        *)
(***************************************************************************)
C12_OnlyPowerDownHookStops ==
   /\ [][(\E cmd \in StopCmds : Trigger(cmd)) =>
            /\ tr'.ret = 0
            /\ UNCHANGED <<work, wk, privvars, lock, chip, bus>>]_vars
   /\ [][PmdCall => ~work'.pending]_vars
   /\ [][PmdLock => (~ghost.stale_pending /\ ~ghost.stale_running)]_vars
   /\ [][(PmdCheck /\ is_powered) => (~is_powered' /\ pm'.pc = "snap")]_vars
   /\ [][(PmdCheck /\ ~is_powered) => (pm'.pc = "unlock" /\ UNCHANGED <<chip, bus>>)]_vars
   /\ [][(pm.pc = "snap" /\ pm'.pc = "unlock") =>
            (pm.k = 5 /\ bus' = HizWrite /\ chip'.ds = DEVICE_STATE_HIZ)]_vars
   /\ [][PmdUnlock => ~is_powered']_vars

\* C12 witness: the last trigger command was STOP, no boot task is queued or
\* running, no power-down is under way, and the device is still powered.
C12_Witness ==
   /\ tr.cmd = "STOP" /\ is_powered
   /\ ~work.pending /\ wk.pc = "idle" /\ pm.pc = "idle"

BootPcs == {"sleep1", "preboot", "sleep2", "cfg", "power"}

(***************************************************************************)
(* C14 as stated, its first half: the boot register sequence is started    *)
(* only from Unpowered, so is_powered is false all the while the worker    *)
(* is between taking the lock and setting is_powered.  A start-class       *)
(* trigger on a powered device breaks it.                                  *)
(***************************************************************************)
C14_BootOnlyFromUnpowered == (wk.pc \in BootPcs) => ~is_powered

(***************************************************************************)
(* C14, amended: is_powered changes from false to true only in do_work,    *)
(* under the lock, right after the last pair of the configuration blob     *)
(* has been written; it changes from true to false only in dac_event       *)
(* under the lock; a running boot is never left before it has set          *)
(* is_powered and refreshed.  (That a boot may start while is_powered is   *)
(* already true is what the witness shows.)                                *)
(***************************************************************************)
C14_PowerTransitions ==
   /\ [][(~is_powered /\ is_powered') =>
            /\ lock = "work" /\ wk.pc = "power" /\ wk'.pc = "refresh"
            /\ bus = [op |-> "work", kind |-> "write", reg |-> dsp_cfg_data[dsp_cfg_len - 1],
                      val |-> <<dsp_cfg_data[dsp_cfg_len]>>, ok |-> TRUE]]_vars
   /\ [][(is_powered /\ ~is_powered') =>
            (lock = "dac_event" /\ pm.pc = "check" /\ pm'.pc = "snap")]_vars
   /\ [][(wk.pc # "idle" /\ wk'.pc = "idle") =>
            (wk.pc = "unlock" /\ is_powered /\ bus.op = "work"
               /\ bus.reg = REG_DEVICE_STATE)]_vars

\* C14 witness: the worker replays the preboot table on a device whose
\* is_powered is already true.
C14_Witness == wk.pc = "preboot" /\ wk.i > 0 /\ is_powered /\ bus.op = "work"

\* the 32-bit value that four bytes spell, most significant byte first
Decode4(b) == ((b[1] * 256 + b[2]) * 256 + b[3]) * 256 + b[4]

\* b is the n-th of the five calls a refresh by thread op has to make
IsRefreshCall(b, op, n) ==
   /\ b.op = op /\ b.ok
   /\ CASE n = 1 -> /\ b.kind = "write" /\ b.reg = 0
                    /\ b.val = <<IF variant = "acm8623" THEN 5 ELSE 4>>
        [] n = 2 -> /\ b.kind = "bulk" /\ Len(b.val) = 4
                    /\ b.reg = (IF variant = "acm8623" THEN 196 ELSE 124)
                    /\ Decode4(b.val) = volume_table(variant)[vol[1] + 1]
        [] n = 3 -> /\ b.kind = "bulk" /\ Len(b.val) = 4
                    /\ b.reg = (IF variant = "acm8623" THEN 192 ELSE 128)
                    /\ Decode4(b.val) = volume_table(variant)[vol[2] + 1]
        [] n = 4 -> b.kind = "write" /\ b.reg = 0 /\ b.val = <<0>>
        [] n = 5 -> /\ b.kind = "write" /\ b.reg = 4
                    /\ b.val = <<IF is_muted THEN 15 ELSE 3>>

\* a step taken while thread t (t before, tn after) is in its refresh
RefreshStep(t, tn, op) ==
   (t.pc = "refresh") =>
      /\ UNCHANGED <<vol, is_muted>>
      /\ IF tn = t
            THEN UNCHANGED bus
            ELSE /\ IsRefreshCall(bus', op, t.rf + 1)
                 /\ IF t.rf < 4 THEN tn.pc = "refresh" /\ tn.rf = t.rf + 1
                                ELSE tn.pc = "unlock"

(***************************************************************************)
(* C15: a refresh, whether made by do_work, vol_put or mute, is five       *)
(* transport calls: the gain page to register 0, the gain of vol[0] as     *)
(* four bytes at the first channel offset, the gain of vol[1] as four      *)
(* bytes at the second, 0 to register 0, and PLAY with the mute bits when  *)
(* is_muted to DEVICE_STATE.  From its first call to its last no other     *)
(* thread makes a transport call and vol and is_muted do not change.       *)
(***************************************************************************)
C15_RefreshFiveCalls ==
   [][/\ RefreshStep(wk, wk', "work")
      /\ RefreshStep(vp, vp', "vol_put")
      /\ RefreshStep(mu, mu', "mute")]_vars

\* C15 witness: vol_put has finished a refresh of a muted device whose two
\* channels are at different volumes.
C15_Witness ==
   /\ vp.pc = "unlock" /\ vp.ret = 1 /\ vol = <<0, VOLUME_0DB>> /\ is_muted
   /\ IsRefreshCall(bus, "vol_put", 5)

\* the write of the pair at index i of table s by the worker
PairWrite(s, i) == [op |-> "work", kind |-> "write", reg |-> s[i + 1],
                    val |-> <<s[i + 2]>>, ok |-> TRUE]

\* a step of the worker inside the replay of table s, followed by phase next
ReplayStep(s, next) ==
   IF wk.i + 1 < Len(s)
      THEN bus' = PairWrite(s, wk.i) /\ wk' = [wk EXCEPT !.i = wk.i + 2]
      ELSE wk'.pc = next /\ UNCHANGED bus

\* what a step of the worker does in each phase of a boot run
BootStep ==
   CASE wk.pc = "idle"    -> wk'.pc = "lock" /\ UNCHANGED <<bus, is_powered>>
     [] wk.pc = "lock"    -> wk'.pc = "sleep1" /\ lock' = "work" /\ UNCHANGED <<bus, is_powered>>
     [] wk.pc = "sleep1"  -> wk'.pc = "preboot" /\ wk'.i = 0 /\ UNCHANGED <<bus, is_powered>>
     [] wk.pc = "preboot" -> ReplayStep(dsp_cfg_preboot(variant), "sleep2") /\ UNCHANGED is_powered
     [] wk.pc = "sleep2"  -> wk'.pc = "cfg" /\ wk'.i = 0 /\ UNCHANGED <<bus, is_powered>>
     [] wk.pc = "cfg"     -> ReplayStep(ActiveBlob, "power") /\ UNCHANGED is_powered
     [] wk.pc = "power"   -> wk'.pc = "refresh" /\ wk'.rf = 0 /\ is_powered' /\ UNCHANGED bus
     [] wk.pc = "refresh" -> /\ bus'.op = "work" /\ is_powered'
                             /\ IF wk.rf < 4 THEN wk' = [wk EXCEPT !.rf = wk.rf + 1]
                                             ELSE wk'.pc = "unlock"
     [] wk.pc = "unlock"  -> wk'.pc = "idle" /\ lock' = "none" /\ UNCHANGED bus

(***************************************************************************)
(* C16: a boot run goes through its phases in one order: the first wait,   *)
(* the preboot pairs in table order, the second wait, the pairs of the     *)
(* override file when there is one and of the default blob otherwise,      *)
(* is_powered := true, the five calls of one refresh.  The worker makes    *)
(* no transport call before the first wait is over and writes no pair of   *)
(* the configuration before the second wait is over, and while it holds    *)
(* the lock nobody else makes a transport call or changes is_powered.      *)
(***************************************************************************)
C16_BootOrder ==
   [][IF wk' # wk
         THEN BootStep
         ELSE (lock = "work") => UNCHANGED <<bus, is_powered>>]_vars

\* C16 witness: a boot run with an override file has written the last pair of
\* the file and is about to set is_powered.
C16_Witness ==
   /\ wk.pc = "power" /\ fw = FwFile(FwSmall) /\ ~is_powered
   /\ bus = PairWrite(FwSmall, 2)

(***************************************************************************)
(* C17 as stated: every step of the power-down hook, the cancellation of   *)
(* the boot task and the wait for it included, is taken with the lock      *)
(* held by the caller.  cancel_work_sync comes before mutex_lock, so the   *)
(* first two steps break it.                                               *)
(***************************************************************************)
C17_PowerDownAllUnderLock ==
   [][(PmdCall \/ PmdFlush \/ PmdCheck \/ PmdSnap) => lock = "dac_event"]_vars

(***************************************************************************)
(* C17, amended: the hook cancels the boot task and waits for a running    *)
(* one without holding the lock; it takes the lock only after that, and    *)
(* the test of is_powered, its clearing, the snapshot and the write of     *)
(* HIZ are all done with the lock held, which is released only at the      *)
(* end.                                                                    *)
(***************************************************************************)
C17_CancelOutsideLockRestInside ==
   /\ [][(PmdCall \/ PmdFlush) => (lock # "dac_event" /\ lock' # "dac_event")]_vars
   /\ [][PmdLock => (lock = "none" /\ work.canceler # "dac_event")]_vars
   /\ [][(PmdCheck \/ PmdSnap) => (lock = "dac_event" /\ lock' = "dac_event")]_vars
   /\ [][(lock = "dac_event" /\ lock' # "dac_event") => (PmdUnlock /\ lock' = "none")]_vars
   /\ [](pm.pc \in {"check", "snap", "unlock"} <=> lock = "dac_event")

\* C17 witness: the hook waits in cancel_work_sync while the worker, in the
\* middle of its configuration writes, holds the lock.
C17_Witness == pm.pc = "flush" /\ lock = "work" /\ wk.pc = "cfg" /\ wk.i > 0

\* a step of the vol_put caller from the comparison on
VolPutPath ==
   CASE vp.pc = "cmp"     -> /\ UNCHANGED <<bus, vol>>
                             /\ vp'.pc = (IF vol # Requested THEN "set0" ELSE "unlock")
     [] vp.pc = "set0"    -> UNCHANGED bus /\ vp'.pc = "set1"
     [] vp.pc = "set1"    -> /\ UNCHANGED bus /\ vol' = Requested
                             /\ vp'.pc = (IF is_powered THEN "refresh" ELSE "unlock")
     [] vp.pc = "refresh" -> /\ is_powered /\ bus'.op = "vol_put" /\ UNCHANGED vol
                             /\ vp'.pc = (IF vp.rf < 4 THEN "refresh" ELSE "unlock")
     [] vp.pc = "unlock"  -> UNCHANGED <<bus, vol>> /\ vp'.pc = "idle"
     [] OTHER             -> UNCHANGED <<bus, vol>>

\* a step of the mute caller
MutePath ==
   CASE mu.pc = "set"     -> /\ UNCHANGED bus /\ is_muted' = (mu.mute # 0)
                             /\ mu'.pc = (IF is_powered THEN "refresh" ELSE "unlock")
     [] mu.pc = "refresh" -> /\ is_powered /\ bus'.op = "mute" /\ UNCHANGED is_muted
                             /\ mu'.pc = (IF mu.rf < 4 THEN "refresh" ELSE "unlock")
     [] mu.pc = "unlock"  -> UNCHANGED <<bus, is_muted>> /\ mu'.pc = "idle"
     [] OTHER             -> UNCHANGED <<bus, is_muted>>

(***************************************************************************)
(* C18: vol_put and mute can be called in every state and make transport   *)
(* calls only inside a refresh, which they enter only when is_powered is   *)
(* set at the moment they have stored their argument under the lock.       *)
(* With is_powered clear, vol_put with a pair that differs from the        *)
(* stored one stores it and mute stores its flag, and both go on to        *)
(* unlock without a transport call; with is_powered set, each goes once    *)
(* through the five calls of a refresh and then unlocks.                   *)
(***************************************************************************)
C18_TrafficOnlyWhenPowered ==
   /\ [][(vp' # vp) => VolPutPath]_vars
   /\ [][(mu' # mu) => MutePath]_vars
   /\ [][(bus' # bus /\ bus'.op = "vol_put") => (vp.pc = "refresh" /\ is_powered)]_vars
   /\ [][(bus' # bus /\ bus'.op = "mute") => (mu.pc = "refresh" /\ is_powered)]_vars

\* C18 witness: on a device that has never been powered, vol_put has stored a
\* new pair and mute has stored its flag, and no transport call has been made.
C18_Witness ==
   /\ vp.pc = "unlock" /\ vp.ret = 1 /\ vol = <<0, 0>> /\ is_muted
   /\ ~is_powered /\ bus = NoCall

(***************************************************************************)
(* C19: the volume table of acm8623 has 135 entries and that of acm8635    *)
(* has 159; in each, every entry but the first is greater than the entry   *)
(* before it, and the entry at index 110 is 0x08000000 (acm8623) or        *)
(* 0x00800000 (acm8635).  So the gain set_dsp_scale sends for index i > 0  *)
(* is greater than the table entry at i - 1.                               *)
(***************************************************************************)
C19_VolumeTableIncreasing ==
   LET t == volume_table(variant)
   IN  /\ Len(t) = (IF variant = "acm8623" THEN 135 ELSE 159)
       /\ \A i \in 2..Len(t) : t[i] > t[i - 1]
       /\ t[110 + 1] = (IF variant = "acm8623" THEN 134217728 ELSE 8388608)
       /\ (vp.pc = "refresh" /\ vp.rf = 2 /\ vol[1] > 0) =>
             (bus.kind = "bulk" /\ Decode4(bus.val) > t[vol[1]])

\* C19 witness: the gain of the last index of the longer table has been sent.
C19_Witness ==
   /\ variant = "acm8635" /\ vol = <<158, 158>>
   /\ vp.pc = "refresh" /\ vp.rf = 2 /\ bus.kind = "bulk"

\* the last calls of the two devices are the same call, or differ in one of
\* the ways the variants differ: the gain page, the gain offsets with the
\* table entries of one index, the preboot pair of one position
CallsAgree(a, b) ==
   /\ a.op = b.op /\ a.kind = b.kind /\ a.ok = b.ok
   /\ \/ a.reg = b.reg /\ a.val = b.val
      \/ /\ a.kind = "write" /\ a.op # "dac_event"
         /\ a.reg = 0 /\ b.reg = 0 /\ a.val = <<5>> /\ b.val = <<4>>
      \/ /\ a.kind = "bulk"
         /\ <<a.reg, b.reg>> \in {<<196, 124>>, <<192, 128>>}
         /\ \E i \in 1..Len(acm8623_volume) :
               /\ Decode4(a.val) = acm8623_volume[i]
               /\ Decode4(b.val) = acm8635_volume[i]
      \/ /\ a.op = "work" /\ wk.pc \in {"preboot", "sleep2"}
         /\ \E i \in {j \in 0..(Len(acm8623_dsp_cfg_preboot) - 2) : j % 2 = 0} :
               /\ a.reg = acm8623_dsp_cfg_preboot[i + 1]
               /\ a.val = <<acm8623_dsp_cfg_preboot[i + 2]>>
               /\ b.reg = acm8635_dsp_cfg_preboot[i + 1]
               /\ b.val = <<acm8635_dsp_cfg_preboot[i + 2]>>

(***************************************************************************)
(* C20: an acm8635 device given the events and the scheduling of an        *)
(* acm8623 device stays in step with it: one step of the twin brings each  *)
(* of its threads to where its counterpart is, with the same return value, *)
(* and then vol, is_muted and is_powered are the same on both and the last *)
(* transport calls are the same but for the gain page value, the gain      *)
(* offsets, the volume table entries and the preboot bytes.                *)
(***************************************************************************)
C20_VariantsInStep ==
   /\ [][TwinStep => Synced']_vars
   /\ [](Synced =>
            /\ twin.vol = vol /\ twin.is_muted = is_muted /\ twin.is_powered = is_powered
            /\ CallsAgree(bus, twin.bus))

\* C20 witness: both devices have finished a refresh made by vol_put on a
\* muted device, the acm8635 one through its own page and offsets.
C20_Witness ==
   /\ Synced /\ vp.pc = "unlock" /\ vol = <<0, VOLUME_0DB>> /\ is_muted /\ is_powered
   /\ bus.op = "vol_put" /\ twin.bus.op = "vol_put" /\ twin.bus.val = <<15>>

(***************************************************************************)
(* C21: a start-class trigger command can be taken in every state of a     *)
(* registered device, whoever holds the lock.  It returns 0 in one step    *)
(* that queues the boot task when the workqueue accepts it and leaves the  *)
(* lock, vol, is_muted, is_powered, the amplifier, the last transport      *)
(* call and every other thread as they were.                               *)
(***************************************************************************)
C21_TriggerNeverBlocks ==
   /\ [](Registered => \A cmd \in StartCmds : ENABLED Trigger(cmd))
   /\ [][(\E cmd \in StartCmds : Trigger(cmd)) =>
            /\ tr'.ret = 0
            /\ CanQueue => work'.pending
            /\ UNCHANGED <<privvars, lock, xfervars, wk, vp, mu, pm>>]_vars

\* C21 witness: a boot task has been queued by START while the power-down
\* hook holds the lock in the middle of its snapshot.
C21_Witness ==
   /\ lock = "dac_event" /\ pm.pc = "snap" /\ pm.k > 0
   /\ tr.cmd = "START" /\ work.pending

\* kind and register of the six calls of a power-down, in their order
PowerDownKinds == <<"write", "read", "read", "read", "read", "write">>

PowerDownRegs == <<0, 22, 23, 24, 25, 4>>

\* a step of the power-down hook from its test of is_powered on
PowerDownStep ==
   CASE pm.pc = "check" ->
           /\ UNCHANGED bus /\ ~is_powered'
           /\ pm'.pc = (IF is_powered THEN "snap" ELSE "unlock")
           /\ pm'.k = 0
     [] pm.pc = "snap" ->
           /\ ~is_powered /\ ~is_powered'
           /\ bus'.op = "dac_event" /\ bus'.ok
           /\ bus'.kind = PowerDownKinds[pm.k + 1]
           /\ bus'.reg = PowerDownRegs[pm.k + 1]
           /\ (pm.k = 0) => bus'.val = <<0>>
           /\ (pm.k = 5) => bus'.val = <<2>>
           /\ IF pm.k < 5 THEN pm'.pc = "snap" /\ pm'.k = pm.k + 1
                          ELSE pm'.pc = "unlock"
     [] pm.pc = "unlock" -> UNCHANGED <<bus, is_powered>> /\ pm'.pc = "idle"
     [] OTHER -> UNCHANGED <<bus, is_powered>>

(***************************************************************************)
(* C22: a power-down that finds is_powered set clears it first and then    *)
(* makes six transport calls and no other: 0 to the page register, reads   *)
(* of 0x16, 0x17, 0x18 and 0x19, and HIZ (0x02) to DEVICE_STATE, after     *)
(* which it only unlocks.  Between its first call and its return no other  *)
(* thread makes a transport call, so no gain or configuration write falls  *)
(* among them.                                                             *)
(***************************************************************************)
C22_PowerDownOrder ==
   [][IF pm' # pm
         THEN PowerDownStep
         ELSE (pm.pc \in {"snap", "unlock"}) => UNCHANGED <<bus, is_powered>>]_vars

\* C22 witness: a power-down of a playing, muted device has made its last
\* call and the amplifier has gone from muted play to high impedance.
C22_Witness ==
   /\ pm.pc = "unlock" /\ bus = HizWrite
   /\ chip.ds = 2 /\ chip.ds_prev = 15 /\ ~is_powered

(***************************************************************************)
(* C23: send_cfg(s, len) makes floor(len / 2) writes and no other call:    *)
(* its k-th turn, k counted from 0, writes s[2k + 1] to register s[2k],    *)
(* and it leaves the loop after turn floor(len / 2) - 1.  The last byte    *)
(* of a sequence of odd length is not used, and a sequence of length 0 or  *)
(* 1 is left without a write.                                              *)
(***************************************************************************)
C23_SendCfgPairwise ==
   /\ [][(wk.pc = "cfg") =>
            IF wk'.pc = "cfg"
               THEN /\ wk.i % 2 = 0 /\ wk.i \div 2 < Len(fw.data) \div 2
                    /\ bus' = PairWrite(fw.data, wk.i)
                    /\ wk'.i = wk.i + 2
               ELSE /\ wk.i = 2 * (Len(fw.data) \div 2)
                    /\ wk'.pc = "power" /\ UNCHANGED bus]_vars
   /\ []((Len(fw.data) <= 1) => bus = NoCall)
   /\ []((wk.pc = "power" /\ Len(fw.data) >= 2) =>
            bus = PairWrite(fw.data, 2 * (Len(fw.data) \div 2) - 2))

\* C23 witness: a sequence of five bytes has been replayed; the last call
\* wrote its fourth byte to the register named by its third.
C23_Witness ==
   /\ wk.pc = "power" /\ fw.data = <<0, 4, 4, 0, 4>>
   /\ bus.reg = 4 /\ bus.val = <<0>>

\* the volume index whose gain the bulk write to register reg carries
BulkIndex(reg) == IF reg \in {196, 124} THEN vol[1] ELSE vol[2]

(***************************************************************************)
(* C24: the four bytes b0..b3 of every bulk write of set_dsp_scale are     *)
(* each in 0..255 and b0 * 2^24 + b1 * 2^16 + b2 * 2^8 + b3 is the table   *)
(* entry of the volume index written; the bytes sent for any other index   *)
(* of the table differ from them.                                          *)
(***************************************************************************)
C24_BigEndianBytes ==
   (bus.kind = "bulk") =>
      /\ Len(bus.val) = 4
      /\ \A j \in 1..4 : bus.val[j] \in 0..255
      /\ bus.val[1] * 16777216 + bus.val[2] * 65536 + bus.val[3] * 256 + bus.val[4]
            = volume_table(variant)[BulkIndex(bus.reg) + 1]
      /\ \A i \in VOLUME_MIN..VOLUME_MAX(variant) :
            (i # BulkIndex(bus.reg)) => set_dsp_scale(variant, bus.reg, i).val # bus.val

\* C24 witness: the gain of the last index of the acm8623 table, 0x7eca9cd2,
\* has been sent as 0x7e, 0xca, 0x9c, 0xd2.
C24_Witness ==
   /\ variant = "acm8623" /\ vol = <<134, 134>>
   /\ bus.kind = "bulk" /\ bus.val = <<126, 202, 156, 210>>

\* the number of entries of the volume table of the device
TableSize == IF variant = "acm8623" THEN 135 ELSE 159

(***************************************************************************)
(* C25: vol[0] and vol[1] are always indices of the volume table, so the   *)
(* lookup of set_dsp_scale is always in bounds: they are 110 after probe,  *)
(* and vol_put stores only what the argument pair is as an int, after      *)
(* both of these ints have passed volume_is_valid.                         *)
(***************************************************************************)
C25_VolumeIndicesInRange ==
   /\ [](vol[1] \in 0..(TableSize - 1) /\ vol[2] \in 0..(TableSize - 1))
   /\ [][(vol' # vol) =>
            /\ vp.pc \in {"set0", "set1"} /\ lock = "vol_put"
            /\ LongToInt(vp.a[1]) \in 0..(TableSize - 1)
            /\ LongToInt(vp.a[2]) \in 0..(TableSize - 1)
            /\ vol'[1] \in {vol[1], LongToInt(vp.a[1])}
            /\ vol'[2] \in {vol[2], LongToInt(vp.a[2])}]_vars

\* C25 witness: vol_put has stored the last index of the table for one
\* channel and refreshes with it.
C25_Witness ==
   /\ vp.pc = "refresh" /\ vp.rf = 3 /\ vol = <<0, TableSize - 1>>
   /\ vp.a[2] = IntToLong(TableSize - 1) /\ bus.kind = "bulk"

\* some operation has been started and has not returned
Busy ==
   wk.pc # "idle" \/ vp.pc # "idle" \/ vg.pc # "idle" \/ mu.pc # "idle" \/ pm.pc # "idle"

\* a step of a started operation
Progress == WorkNext \/ VolPutNext \/ VolGetNext \/ MuteNext \/ PmdNext

(***************************************************************************)
(* C26: no deadlock: whenever an operation is under way, some thread that  *)
(* is inside one can take a step; the power-down hook waits for the boot   *)
(* task only while it does not hold the lock; and under fair scheduling    *)
(* every boot run, vol_put, vol_get, mute and power-down that has started  *)
(* returns.                                                                *)
(***************************************************************************)
C26_DeadlockFree ==
   /\ [](Busy => ENABLED Progress)
   /\ [](pm.pc = "flush" => lock # "dac_event")
   /\ (wk.pc # "idle") ~> (wk.pc = "idle" /\ lock # "work")
   /\ (vp.pc # "idle") ~> (vp.pc = "idle")
   /\ (vg.pc # "idle") ~> (vg.pc = "idle")
   /\ (mu.pc # "idle") ~> (mu.pc = "idle")
   /\ (pm.pc # "idle") ~> (pm.pc = "idle")

\* C26 witness: the worker holds the lock in the middle of a boot while
\* vol_put, vol_get and mute wait for the lock and the power-down hook waits
\* for the worker.
C26_Witness ==
   /\ lock = "work" /\ wk.pc = "cfg"
   /\ vp.pc = "lock" /\ vg.pc = "lock" /\ mu.pc = "lock" /\ pm.pc = "flush"

\* the pairs a set_volume call has been given, and the pair set by probe
StoredPairs == {<<110, 110>>} \cup {<<i, i>> : i \in GetArgs}

(***************************************************************************)
(* C27: the pair vol_get returns is the pair set by probe or the argument  *)
(* pair of a vol_put call, never the left value of one with the right      *)
(* value of another: vol is between its two stores only while vol_put      *)
(* holds the lock, and vol_get reads both values while it holds the lock.  *)
(***************************************************************************)
C27_VolGetSeesWholePair ==
   /\ [](vg.pc = "unlock" => (vg.out \in StoredPairs /\ vg.out = vol))
   /\ []((vg.pc = "idle" /\ vg.out # <<0, 0>>) => vg.out \in StoredPairs)
   /\ [](vol \notin StoredPairs => (vp.pc = "set1" /\ lock = "vol_put"))
   /\ [](vg.pc \in {"get0", "get1", "unlock"} => lock = "vol_get")

\* C27 witness: vol_get has read the pair of the second of two vol_put calls
\* while a third call is waiting for the lock.
C27_Witness ==
   /\ vg.pc = "unlock" /\ vg.out = <<134, 134>>
   /\ vp.pc = "lock" /\ vp.a = <<IntToLong(50), IntToLong(50)>> /\ is_powered

\* do_work has set is_powered and made the last call of its refresh
BootDone == is_powered /\ wk.pc = "unlock" /\ IsRefreshCall(bus, "work", 5)

C29_StoredValuesReachBoot ==
   /\ [][(vp.pc = "set0" /\ vp' # vp) => vol'[1] = LongToInt(vp.a[1])]_vars
   /\ [][(vp.pc = "set1" /\ vp' # vp) => vol' = <<LongToInt(vp.a[1]), LongToInt(vp.a[2])>>]_vars
   /\ [][(mu.pc = "set" /\ mu' # mu) => is_muted' = (mu.mute # 0)]_vars
   /\ [][(vol' # vol) => (vp.pc \in {"set0", "set1"} /\ vp' # vp)]_vars
   /\ [][(is_muted' # is_muted) => (mu.pc = "set" /\ mu' # mu)]_vars
   /\ [][(lock = "work" /\ lock' = "work") => UNCHANGED <<vol, is_muted>>]_vars
   /\ [][(wk.pc = "refresh" /\ wk' # wk) => IsRefreshCall(bus', "work", wk.rf + 1)]_vars
   /\ [](BootDone => chip.ds = (IF is_muted THEN 15 ELSE 3))

\* C29 witness: the first boot has just written the gain of vol[1] of a
\* pair and will write the device state of a mute flag that were both
\* stored before it took the lock, while the device was unpowered.
C29_Witness ==
   /\ wk.pc = "refresh" /\ wk.rf = 3 /\ vol = <<VOLUME_0DB, 0>> /\ is_muted
   /\ bus.kind = "bulk" /\ Decode4(bus.val) = volume_table(variant)[1]

(***************************************************************************)
(* C30 as stated: once power_down has returned and no stream start has     *)
(* been issued since, is_powered is false, also when the latest start      *)
(* came in after the cancellation step of that power_down and before its   *)
(* return.  dac_event cancels the boot task before it takes the lock and   *)
(* not again, so a task queued in between runs after the power-down and    *)
(* sets is_powered: this does not hold.                                    *)
(***************************************************************************)
C30_PowerDownIsFinal ==
   (pm.pc = "idle" /\ tr.cmd = "RESUME") => ~is_powered
====
